---- MODULE Spec2Model ----
(***************************************************************************)
(* A model of the document retrieval core of DonTron-prog/docerate:        *)
(* the indexing pipeline (rag/indexer.py), the dense store                 *)
(* (rag/embeddings.py), BM25 (rag/bm25.py), the hybrid query engine        *)
(* (rag/search.py) and the serving layer's artifact loader                 *)
(* (backend/main.py, backend/services/data_loader.py).                     *)
(*                                                                         *)
(* The specifications share the variables.                                 *)
(*   Spec        the pipeline process (BlogIndexer.run, crashes, restarts) *)
(*               over the five artifact files in data/.                    *)
(*   SpecServe   Spec with one loader process (load_search_index at server *)
(*               startup) interleaved with the pipeline.                   *)
(*   SpecSearch  HybridSearch.search applied to an index that one pipeline *)
(*               run of a fresh BlogIndexer built.                         *)
(*   SpecFusion  _reciprocal_rank_fusion applied to candidate lists.       *)
(*   SpecSparse  BM25.score, BM25.search and _sparse_search applied to     *)
(*               small corpora.                                            *)
(*   SpecStore   EmbeddingStore.search applied to small stores.            *)
(*   SpecChunker process_posts and MarkdownChunker applied to small posts, *)
(*               whose texts are sequences of characters.                  *)
(*   SpecPersist save followed by load of a store and a BM25 model, and    *)
(*               probes of the saved and the loaded index.                 *)
(*   SpecQueries two threads inside HybridSearch.search on one object.     *)
(*   SpecFit     BM25.fit called repeatedly on one instance.               *)
(*                                                                         *)
(* Modelling conventions.                                                  *)
(*   A text is the sequence of its lowercase words.                        *)
(*   An embedding vector is the term [of |-> text, dim |-> d]: the         *)
(*   provider is an external function, so a row is kept as "the embedding  *)
(*   of this text" and a similarity is drawn when a query is made.         *)
(*   Scores are exact rationals <<num, den>>; the code's float rounding is *)
(*   not modelled. BM25's idf is a table of ln values in thousandths.      *)
(*   Each file on disk carries the number of the run that wrote it, a      *)
(*   history field that no operation reads.                                *)
(***************************************************************************)
EXTENDS Integers, Sequences, FiniteSets, TLC

VARIABLES
    pc,              \* BlogIndexer.run: the step the pipeline process is at
    run_no,          \* number of run invocations started so far
    outcome,         \* how the latest run invocation ended
    chunks,          \* run's local: the chunk list of process_posts
    all_embeddings,  \* generate_embeddings' local: list of batch arrays
    batch_i,         \* generate_embeddings' loop index i
    embed_failed,    \* the provider raised during the current run
    embedding_store, \* BlogIndexer.embedding_store
    bm25,            \* run's local: the model build_bm25_index returned
    provider,        \* indexer's EmbeddingConfig.provider
    model_dim,       \* output dimension of the indexer's embedding model
    disk,            \* data/: file name -> content
    disk_at_start,   \* disk as it was when the current run started
    rpc,             \* load_search_index: the step the loader is at
    app_state,       \* backend/main.py app_state
    loaded_run,      \* for each file the loader has read, the run that wrote it
    srv_dim,         \* output dimension of the serving embedding provider
    hybrid_search,   \* app_state["hybrid_search"], the HybridSearch object
    search_out,      \* the latest HybridSearch.search call and its result
    fusion_out,      \* the latest _reciprocal_rank_fusion call and its result
    rank0_seen,      \* <<lists, fused score>> of rank-0 candidates of earlier calls
    sparse_out,      \* the latest _sparse_search call and its result
    bm25_out,        \* the latest BM25.search call and its result
    tf_out,          \* BM25.score of one document before and after it gains a term
    store_out,       \* the latest EmbeddingStore.search calls and their results
    chunk_out,       \* the latest chunk_document call and its result
    reload_out,      \* what a save followed by a load gave back, and the probes
    fit_out,         \* the BM25 instance that fit is called on, and the calls
    calls            \* for each client thread, its HybridSearch.search call in progress

vars == <<pc, run_no, outcome, chunks, all_embeddings, batch_i, embed_failed,
          embedding_store, bm25, provider, model_dim, disk, disk_at_start,
          rpc, app_state, loaded_run, srv_dim, hybrid_search, search_out,
          fusion_out, rank0_seen, sparse_out, bm25_out, tf_out, store_out, chunk_out,
          reload_out, fit_out, calls>>

pipeline_vars == <<pc, run_no, outcome, chunks, all_embeddings, batch_i,
                   embed_failed, embedding_store, bm25, disk, disk_at_start>>

loader_vars == <<rpc, app_state, loaded_run>>

config_vars == <<provider, model_dim, srv_dim>>

search_vars == <<hybrid_search, search_out>>

\* The variables of the specifications of single functions.
fusion_vars == <<fusion_out, rank0_seen>>

bm25_vars == <<sparse_out, bm25_out, tf_out>>

store_vars == <<store_out>>

chunker_vars == <<chunk_out>>

persist_vars == <<reload_out, fit_out>>

query_vars == <<calls>>

unit_vars == <<fusion_vars, bm25_vars, store_vars, chunker_vars, persist_vars, query_vars>>

(***************************************************************************)
(* Bounds                                                                  *)
(***************************************************************************)
MaxChunks == 5

MaxIndexed == 3

MaxRuns == 2

MaxTopK == 2

MaxSim == 1

\* Longest candidate list handed to fusion on its own.
MaxFuseLen == 2

\* Largest corpus BM25 is fitted on by itself.
MaxDocs == 5

(***************************************************************************)
(* Program constants                                                       *)
(***************************************************************************)
\* indexer.py:137 has batch_size = 32; scaled down so that a corpus of
\* MaxChunks chunks spans several batches.
batch_size == 2

\* indexer.py:42, EmbeddingConfig(dimension=384)
DefaultDimension == 384

\* reindex_simple.py:16, the dimension Titan V2 is asked for
TitanDimension == 1024

ModelDims == {DefaultDimension, TitanDimension}

Providers == {"local", "bedrock"}

None == "None"

Min(a, b) == IF a < b THEN a ELSE b

Range(s) == {s[i] : i \in DOMAIN s}

RECURSIVE SumSeq(_)
SumSeq(s) == IF s = <<>> THEN 0 ELSE Head(s) + SumSeq(Tail(s))

RECURSIVE Flatten(_)
Flatten(ss) == IF ss = <<>> THEN <<>> ELSE Head(ss) \o Flatten(Tail(ss))

(***************************************************************************)
(* The corpus: chunk k of the pool, as process_posts emits it.             *)
(***************************************************************************)
ContentTable ==
    << <<"cat", "dog">>,
       <<"dog", "dog", "the", "fox">>,
       <<"fox", "ox">>,
       <<"cat", "cat", "emu">> >>

TitleTable == << <<"cat", "post">>, <<"dog", "post">>, <<"fox">> >>

HeadingTable == << <<>>, <<"dog", "setup">> >>

TagTable == << {"x"}, {"y"}, {}, {"x", "y"}, {} >>

Pick(table, k) == table[((k - 1) % Len(table)) + 1]

Chunk(k) ==
    [chunk_id |-> k,
     content |-> Pick(ContentTable, k),
     post_title |-> Pick(TitleTable, k),
     section_heading |-> Pick(HeadingTable, k),
     tags |-> Pick(TagTable, k)]

\* The chunk lists a pipeline run may get from load_posts and
\* process_posts: the first n chunks of the pool.
CorpusChoices == {[i \in 1..n |-> Chunk(i)] : n \in 0..MaxChunks}

\* The chunk lists the searched index is built from: n chunks of the pool
\* starting after chunk s, all with distinct ids.
IndexedChoices ==
    {[i \in 1..n |-> Chunk(s + i)] : n \in 0..MaxIndexed, s \in 0..1}

(***************************************************************************)
(* rag/embeddings.py: EmbeddingService                                     *)
(***************************************************************************)
\* A numpy array: not assigned (None), np.array([]) of shape (0,), or a
\* two-dimensional array given by its rows.
NoMatrix == [kind |-> "none", rows |-> <<>>]

EmptyArr == [kind |-> "1d", rows |-> <<>>]

Mat(rows) == [kind |-> "2d", rows |-> rows]

Vec(text, d) == [of |-> text, dim |-> d]

\* _embed_local: model.encode keeps the order of its inputs.
EmbedLocal(texts, d) == Mat([i \in 1..Len(texts) |-> Vec(texts[i], d)])

\* _embed_bedrock: one request per text, batch after batch, extended in order.
RECURSIVE BedrockBatches(_, _, _)
BedrockBatches(texts, i, d) ==
    IF i >= Len(texts) THEN <<>>
    ELSE LET batch == SubSeq(texts, i + 1, Min(i + batch_size, Len(texts)))
             batch_embeddings == [j \in 1..Len(batch) |-> Vec(batch[j], d)]
         IN  batch_embeddings \o BedrockBatches(texts, i + batch_size, d)

EmbedBedrock(texts, d) == Mat(BedrockBatches(texts, 0, d))

EmbedTexts(prov, texts, d) ==
    IF texts = <<>> THEN EmptyArr
    ELSE IF prov = "local" THEN EmbedLocal(texts, d)
    ELSE EmbedBedrock(texts, d)

\* EmbeddingService.__init__ and _init_local_model: the local provider
\* overwrites config.dimension with the model's; bedrock leaves it as given.
ConfigDimension(prov, given, actual) == IF prov = "local" THEN actual ELSE given

(***************************************************************************)
(* rag/embeddings.py: EmbeddingStore                                       *)
(***************************************************************************)
EmbeddingStore(dimension) ==
    [dimension |-> dimension, embeddings |-> NoMatrix,
     metadata |-> <<>>, chunk_ids |-> <<>>]

ZeroColRow == Vec(<<>>, 0)

\* np.atleast_2d, as np.vstack applies it: shape (0,) becomes shape (1, 0).
Rows2d(m) == IF m.kind = "1d" THEN <<ZeroColRow>> ELSE m.rows

Cols(m) == IF Rows2d(m) = <<>> THEN 0 ELSE Rows2d(m)[1].dim

\* len(array)
MatLen(m) == IF m.kind = "2d" THEN Len(m.rows) ELSE 0

\* np.vstack of a list of arrays
VStackRaises(ms) == \E i, j \in DOMAIN ms : Cols(ms[i]) # Cols(ms[j])

VStack(ms) == Mat(Flatten([i \in DOMAIN ms |-> Rows2d(ms[i])]))

AddEmbeddingsRaises(store, embeddings) ==
    /\ store.embeddings.kind # "none"
    /\ VStackRaises(<<store.embeddings, embeddings>>)

AddEmbeddings(store, embeddings, chunk_ids, metadata) ==
    [store EXCEPT
        !.embeddings = IF store.embeddings.kind = "none" THEN embeddings
                       ELSE VStack(<<store.embeddings, embeddings>>),
        !.chunk_ids = store.chunk_ids \o chunk_ids,
        !.metadata = store.metadata \o metadata]

(***************************************************************************)
(* rag/bm25.py                                                             *)
(***************************************************************************)
K1Num == 3

K1Den == 2

BNum == 3

BDen == 4

stopwords ==
    {"the", "is", "at", "which", "on", "and", "a", "an", "as", "are",
     "was", "were", "be", "have", "has", "had", "do", "does", "did",
     "will", "would", "could", "should", "may", "might", "must", "can",
     "this", "that", "these", "those", "i", "you", "he", "she", "it",
     "we", "they", "what", "who", "when", "where", "why", "how",
     "all", "each", "every", "both", "few", "more", "most", "other",
     "some", "such", "only", "own", "same", "so", "than", "too", "very",
     "just", "in", "of", "to", "for", "with", "by", "from", "about"}

KeepToken(t) == t \notin stopwords /\ Len(t) > 2

Tokenize(text) == SelectSeq(text, KeepToken)

\* collections.Counter of a token list
Counter(tokens) ==
    [t \in Range(tokens) |->
        Cardinality({i \in DOMAIN tokens : tokens[i] = t})]

\* round(1000 * ln((N - df + 0.5) / (df + 0.5) + 1)), row N, column df
IdfTable ==
    << <<288>>,
       <<693, 182>>,
       <<981, 470, 134>>,
       <<1204, 693, 357, 105>>,
       <<1386, 875, 539, 288, 87>>,
       <<1540, 1030, 693, 442, 241, 74>>,
       <<1674, 1163, 827, 575, 375, 208, 65>>,
       <<1792, 1281, 944, 693, 492, 325, 182, 57>> >>

CalculateIdf(doc_freq, total_docs) == IdfTable[total_docs][doc_freq]

NewBM25 ==
    [doc_lengths |-> <<>>, avgdl |-> <<0, 1>>, doc_freqs |-> <<>>,
     idf |-> <<>>, doc_count |-> 0, vocab |-> {}]

\* f @@ g restricted to what fit does: later entries overwrite earlier ones.
Update(f, g) ==
    [t \in (DOMAIN f) \cup (DOMAIN g) |-> IF t \in DOMAIN g THEN g[t] ELSE f[t]]

Fit(m, documents) ==
    LET toks == [i \in DOMAIN documents |-> Tokenize(documents[i])]
        seen == UNION {Range(toks[i]) : i \in DOMAIN documents}
        doc_freq_counter ==
            [t \in seen |->
                Cardinality({i \in DOMAIN documents : t \in Range(toks[i])})]
        lengths == m.doc_lengths \o [i \in DOMAIN documents |-> Len(toks[i])]
    IN  [doc_count |-> Len(documents),
         doc_lengths |-> lengths,
         vocab |-> m.vocab \cup seen,
         doc_freqs |-> m.doc_freqs \o [i \in DOMAIN documents |-> Counter(toks[i])],
         avgdl |-> IF lengths # <<>> THEN <<SumSeq(lengths), Len(lengths)>>
                   ELSE <<0, 1>>,
         idf |-> Update(m.idf,
                        [t \in seen |->
                            CalculateIdf(doc_freq_counter[t], Len(documents))])]

\* A term that counts presence only and scales it by avgdl / doc_len: not
\* the BM25 term.
TermScore_PerLength(m, token, doc_index) ==
    LET doc_freq == m.doc_freqs[doc_index]
    IN  IF token \notin DOMAIN m.idf \/ token \notin DOMAIN doc_freq THEN 0
        ELSE (m.idf[token] * m.avgdl[1])
             \div (m.doc_lengths[doc_index] * m.avgdl[2])

\* One query token's term of the sum, in thousandths:
\*   idf * freq * (k1 + 1) / (freq + k1 * (1 - b + b * doc_len / avgdl))
\* with k1 = K1Num/K1Den, b = BNum/BDen and avgdl = avgdl[1]/avgdl[2].
TermScore(m, token, doc_index) ==
    LET doc_len == m.doc_lengths[doc_index]
        doc_freq == m.doc_freqs[doc_index]
        freq == IF token \in DOMAIN doc_freq THEN doc_freq[token] ELSE 0
        s == m.avgdl[1]
        n == m.avgdl[2]
    IN  IF token \notin DOMAIN m.idf \/ freq = 0 THEN 0
        ELSE (m.idf[token] * freq * (K1Num + K1Den) * BDen * s)
             \div (freq * K1Den * BDen * s
                   + K1Num * ((BDen - BNum) * s + BNum * doc_len * n))

BM25Score(m, query, doc_index) ==
    LET query_tokens == Tokenize(query)
    IN  SumSeq([i \in DOMAIN query_tokens |->
                    TermScore(m, query_tokens[i], doc_index)])

\* Exact non-negative rationals <<num, den>>, den > 0.
RECURSIVE Gcd(_, _)
Gcd(a, b) == IF b = 0 THEN a ELSE Gcd(b, a % b)

Rat(n, d) == LET g == Gcd(n, d) IN IF g = 0 THEN <<0, 1>> ELSE <<n \div g, d \div g>>

RatAdd(a, b) ==
    LET g == Gcd(a[2], b[2])
    IN  Rat(a[1] * (b[2] \div g) + b[1] * (a[2] \div g), (a[2] \div g) * b[2])

RatMul(a, b) ==
    LET x == Rat(a[1], b[2])
        y == Rat(b[1], a[2])
    IN  <<x[1] * y[1], x[2] * y[2]>>

\* n1/d1 < n2/d2, by comparing integer parts and then the inverted remainders,
\* so that no product of two denominators is formed.
RECURSIVE RatLessParts(_, _, _, _)
RatLessParts(n1, d1, n2, d2) ==
    LET q1 == n1 \div d1
        q2 == n2 \div d2
        r1 == n1 % d1
        r2 == n2 % d2
    IN  IF q1 # q2 THEN q1 < q2
        ELSE IF r2 = 0 THEN FALSE
        ELSE IF r1 = 0 THEN TRUE
        ELSE RatLessParts(d2, r2, d1, r1)

RatLess(a, b) == RatLessParts(a[1], a[2], b[1], b[2])

\* A descending sort that puts a pair before the earlier pairs of the same
\* score: not what list.sort does.
RECURSIVE InsertDesc_TiesFirst(_, _)
InsertDesc_TiesFirst(sorted, x) ==
    IF sorted = <<>> THEN <<x>>
    ELSE IF ~RatLess(x[2], Head(sorted)[2]) THEN <<x>> \o sorted
    ELSE <<Head(sorted)>> \o InsertDesc_TiesFirst(Tail(sorted), x)

\* list.sort(key, reverse=True) and sorted(..., reverse=True) over
\* <<item, score>> pairs: stable, so a pair goes after every pair whose score
\* is not smaller than its own.
RECURSIVE InsertDesc(_, _)
InsertDesc(sorted, x) ==
    IF sorted = <<>> THEN <<x>>
    ELSE IF RatLess(Head(sorted)[2], x[2]) THEN <<x>> \o sorted
    ELSE <<Head(sorted)>> \o InsertDesc(Tail(sorted), x)

RECURSIVE SortDesc(_)
SortDesc(s) ==
    IF s = <<>> THEN <<>>
    ELSE InsertDesc(SortDesc(SubSeq(s, 1, Len(s) - 1)), s[Len(s)])

Take(s, n) == SubSeq(s, 1, Min(n, Len(s)))

\* BM25.search: (doc_index, score) pairs, doc_index counted from 1, the
\* score in thousandths.
BM25Search(m, query, top_k) ==
    LET all == [i \in 1..m.doc_count |-> <<i, <<BM25Score(m, query, i), 1>> >>]
        scores == SelectSeq(all, LAMBDA p : p[2][1] > 0)
    IN  Take(SortDesc(scores), top_k)

(***************************************************************************)
(* rag/indexer.py: BlogIndexer                                             *)
(***************************************************************************)
Files ==
    {"chunks.json", "embeddings.npy", "metadata.json", "bm25_index.pkl",
     "index_summary.json"}

Absent == [run |-> 0, state |-> "absent", data |-> None]

\* What open(path, 'w') or np.save leaves when the process dies in the write.
Torn(r) == [run |-> r, state |-> "torn", data |-> None]

File(r, data) == [run |-> r, state |-> "ok", data |-> data]

\* BlogIndexer.__init__: the store takes the dimension the config holds once
\* the service is constructed.
IndexerDimension == ConfigDimension(provider, DefaultDimension, model_dim)

Texts(cs) == [i \in DOMAIN cs |-> cs[i].content]

ChunkIds(cs) == [i \in DOMAIN cs |-> cs[i].chunk_id]

Metadata(cs) == [i \in DOMAIN cs |-> [tags |-> cs[i].tags]]

\* generate_embeddings, the loop: the batch that starts at index i
BatchTexts(texts, i) == SubSeq(texts, i + 1, Min(i + batch_size, Len(texts)))

\* generate_embeddings, after the loop: what is handed to add_embeddings
Combined(batches) == IF batches # <<>> THEN VStack(batches) ELSE EmptyArr

\* A run that catches the provider's exception and goes on with the next batch.
RunRaises_Swallowed == "embed"

\* run has no try/except: an exception of a step ends the invocation.
RunRaises == "idle"

\* The locals of run are gone when the invocation ends.
DropLocals ==
    /\ chunks' = <<>>
    /\ all_embeddings' = <<>>
    /\ batch_i' = 0
    /\ bm25' = NewBM25

\* load_posts returned no posts: run returns at once.
RunNoPosts ==
    /\ pc = "idle"
    /\ run_no < MaxRuns
    /\ run_no' = run_no + 1
    /\ outcome' = "no_posts"
    /\ embed_failed' = FALSE
    /\ disk_at_start' = disk
    /\ UNCHANGED <<pc, chunks, all_embeddings, batch_i, embedding_store, bm25, disk>>
    /\ UNCHANGED <<loader_vars, config_vars, search_vars, unit_vars>>

\* load_posts and process_posts, up to the first batch of generate_embeddings
RunLoadPosts ==
    /\ pc = "idle"
    /\ run_no < MaxRuns
    /\ \E cs \in CorpusChoices : chunks' = cs
    /\ run_no' = run_no + 1
    /\ outcome' = "running"
    /\ embed_failed' = FALSE
    /\ disk_at_start' = disk
    /\ all_embeddings' = <<>>
    /\ batch_i' = 0
    /\ pc' = "embed"
    /\ UNCHANGED <<embedding_store, bm25, disk>>
    /\ UNCHANGED <<loader_vars, config_vars, search_vars, unit_vars>>

EmbedBatch ==
    /\ pc = "embed"
    /\ batch_i < Len(chunks)
    /\ all_embeddings' =
           Append(all_embeddings,
                  EmbedTexts(provider, BatchTexts(Texts(chunks), batch_i), model_dim))
    /\ batch_i' = batch_i + batch_size
    /\ UNCHANGED <<pc, run_no, outcome, chunks, embed_failed, embedding_store,
                   bm25, disk, disk_at_start>>
    /\ UNCHANGED <<loader_vars, config_vars, search_vars, unit_vars>>

\* embed_texts raises on the batch at batch_i
EmbedBatchRaises ==
    /\ pc = "embed"
    /\ batch_i < Len(chunks)
    /\ embed_failed' = TRUE
    /\ pc' = RunRaises
    /\ IF pc' = "idle"
       THEN outcome' = "aborted" /\ DropLocals
       ELSE /\ batch_i' = batch_i + batch_size
            /\ UNCHANGED <<outcome, chunks, all_embeddings, bm25>>
    /\ UNCHANGED <<run_no, embedding_store, disk, disk_at_start>>
    /\ UNCHANGED <<loader_vars, config_vars, search_vars, unit_vars>>

\* generate_embeddings after the loop: vstack, metadata, add_embeddings
StoreEmbeddings ==
    /\ pc = "embed"
    /\ batch_i >= Len(chunks)
    /\ LET embeddings == Combined(all_embeddings)
       IN  IF AddEmbeddingsRaises(embedding_store, embeddings)
           THEN /\ pc' = "idle"
                /\ outcome' = "aborted"
                /\ DropLocals
                /\ UNCHANGED embedding_store
           ELSE /\ pc' = "bm25"
                /\ embedding_store' =
                       AddEmbeddings(embedding_store, embeddings,
                                     ChunkIds(chunks), Metadata(chunks))
                /\ UNCHANGED <<outcome, chunks, all_embeddings, batch_i, bm25>>
    /\ UNCHANGED <<run_no, embed_failed, disk, disk_at_start>>
    /\ UNCHANGED <<loader_vars, config_vars, search_vars, unit_vars>>

BuildBm25Index ==
    /\ pc = "bm25"
    /\ bm25' = Fit(NewBM25, Texts(chunks))
    /\ pc' = "save_chunks"
    /\ UNCHANGED <<run_no, outcome, chunks, all_embeddings, batch_i, embed_failed,
                   embedding_store, disk, disk_at_start>>
    /\ UNCHANGED <<loader_vars, config_vars, search_vars, unit_vars>>

\* save_artifacts writes the five files in place, one after the other.
SaveOrder ==
    <<"chunks.json", "embeddings.npy", "metadata.json", "bm25_index.pkl",
      "index_summary.json">>

SavePc == <<"save_chunks", "save_embeddings", "save_metadata", "save_bm25",
            "save_summary">>

SaveStep(p) == CHOOSE k \in 1..Len(SavePc) : SavePc[k] = p

Summary(cs, dimension) == [num_chunks |-> Len(cs), embedding_dimension |-> dimension]

\* What each step of save_artifacts writes; EmbeddingStore.save skips the
\* matrix file when the store has no matrix.
Written(f) ==
    CASE f = "chunks.json" -> File(run_no, chunks)
      [] f = "embeddings.npy" ->
            IF embedding_store.embeddings.kind # "none"
            THEN File(run_no, embedding_store.embeddings)
            ELSE disk[f]
      [] f = "metadata.json" ->
            File(run_no, [chunk_ids |-> embedding_store.chunk_ids,
                          metadata |-> embedding_store.metadata,
                          dimension |-> embedding_store.dimension])
      [] f = "bm25_index.pkl" -> File(run_no, bm25)
      [] f = "index_summary.json" -> File(run_no, Summary(chunks, IndexerDimension))

SaveFile ==
    /\ pc \in Range(SavePc)
    /\ LET k == SaveStep(pc)
       IN  /\ disk' = [disk EXCEPT ![SaveOrder[k]] = Written(SaveOrder[k])]
           /\ IF k < Len(SavePc)
              THEN /\ pc' = SavePc[k + 1]
                   /\ UNCHANGED <<outcome, chunks, all_embeddings, batch_i, bm25>>
              ELSE /\ pc' = "idle"
                   /\ outcome' = "complete"
                   /\ DropLocals
    /\ UNCHANGED <<run_no, embed_failed, embedding_store, disk_at_start>>
    /\ UNCHANGED <<loader_vars, config_vars, search_vars, unit_vars>>

\* The pipeline process dies between two steps; its memory is gone.
Crash ==
    /\ pc \notin {"idle", "crashed"}
    /\ pc' = "crashed"
    /\ outcome' = "crashed"
    /\ DropLocals
    /\ embedding_store' = EmbeddingStore(IndexerDimension)
    /\ UNCHANGED <<run_no, embed_failed, disk, disk_at_start>>
    /\ UNCHANGED <<loader_vars, config_vars, search_vars, unit_vars>>

\* The pipeline process dies while it writes a file.
CrashMidWrite ==
    /\ pc \in Range(SavePc)
    /\ disk' = [disk EXCEPT ![SaveOrder[SaveStep(pc)]] = Torn(run_no)]
    /\ pc' = "crashed"
    /\ outcome' = "crashed"
    /\ DropLocals
    /\ embedding_store' = EmbeddingStore(IndexerDimension)
    /\ UNCHANGED <<run_no, embed_failed, disk_at_start>>
    /\ UNCHANGED <<loader_vars, config_vars, search_vars, unit_vars>>

\* main(): a new process constructs a new BlogIndexer.
NewIndexer ==
    /\ pc \in {"idle", "crashed"}
    /\ run_no < MaxRuns
    /\ pc = "crashed" \/ embedding_store # EmbeddingStore(IndexerDimension)
    /\ embedding_store' = EmbeddingStore(IndexerDimension)
    /\ pc' = "idle"
    /\ UNCHANGED <<run_no, outcome, chunks, all_embeddings, batch_i, embed_failed,
                   bm25, disk, disk_at_start>>
    /\ UNCHANGED <<loader_vars, config_vars, search_vars, unit_vars>>

(***************************************************************************)
(* rag/search.py: HybridSearch                                             *)
(***************************************************************************)
\* config.py:105, search_alpha = 0.7, as the rational 7/10
search_alpha == <<7, 10>>

\* The values of alpha an index is searched with.
Alphas == {<<0, 1>>, search_alpha, <<1, 1>>}

\* _reciprocal_rank_fusion: k = 60
RrfK == 60

\* {chunk['chunk_id']: i for i, chunk in enumerate(chunks)}: the last chunk
\* with an id wins.
ChunkIdToIdx(cs) ==
    [id \in {cs[i].chunk_id : i \in DOMAIN cs} |->
        CHOOSE i \in DOMAIN cs :
            /\ cs[i].chunk_id = id
            /\ \A j \in DOMAIN cs : cs[j].chunk_id = id => j <= i]

HybridSearch(store, bm25_model, cs, alpha) ==
    [embedding_store |-> store, bm25_model |-> bm25_model, chunks |-> cs,
     alpha |-> alpha, chunk_id_to_idx |-> ChunkIdToIdx(cs)]

NoHybridSearch ==
    [embedding_store |-> EmbeddingStore(0), bm25_model |-> NewBM25,
     chunks |-> <<>>, alpha |-> <<0, 1>>, chunk_id_to_idx |-> <<>>]

\* A filter that lets every tagged chunk through, whatever its tags.
HasAnyTag_AnyTagged(tags, filter_tags) == tags # {}

\* any(tag in tags for tag in filter_tags)
HasAnyTag(tags, filter_tags) == tags \cap filter_tags # {}

Indices(n) == [i \in 1..n |-> i]

\* EmbeddingStore.search, the filter: the rows that are scored
FilteredIndices(store, filter_tags) ==
    IF filter_tags # {}
    THEN SelectSeq(Indices(Len(store.metadata)),
                   LAMBDA i : HasAnyTag(store.metadata[i].tags, filter_tags))
    ELSE Indices(MatLen(store.embeddings))

Perms(n) == {p \in [1..n -> 1..n] : \A i, j \in 1..n : p[i] = p[j] => i = j}

\* np.argsort(similarities)[::-1]: descending by similarity; the order of
\* equal similarities is not fixed by the default sort kind.
ArgsortDesc(similarities) ==
    {p \in Perms(Len(similarities)) :
        \A i, j \in 1..Len(similarities) :
            i < j => similarities[p[i]] >= similarities[p[j]]}

\* EmbeddingStore.search: the set of result lists it may return, where
\* sim[i] is the cosine similarity of row i to the query embedding.
StoreSearch(store, sim, top_k, filter_tags) ==
    IF store.embeddings.kind = "none" \/ MatLen(store.embeddings) = 0
    THEN {<<>>}
    ELSE LET indices == FilteredIndices(store, filter_tags)
             similarities == [i \in DOMAIN indices |-> sim[indices[i]]]
         IN  IF indices = <<>> THEN {<<>>}
             ELSE {[r \in 1..Min(top_k, Len(indices)) |->
                       [chunk_id |-> store.chunk_ids[indices[p[r]]],
                        score |-> similarities[p[r]],
                        metadata |-> store.metadata[indices[p[r]]]]] :
                   p \in ArgsortDesc(similarities)}

\* _dense_search: (chunk_id, score) pairs of one result list of the store
DenseResults(found) == [r \in DOMAIN found |-> <<found[r].chunk_id, found[r].score>>]

\* _sparse_search, the loop over bm25_results from position i on
RECURSIVE SparseLoop(_, _, _, _, _, _)
SparseLoop(hs, bm25_results, i, filtered_results, top_k, filter_tags) ==
    IF i > Len(bm25_results) THEN filtered_results
    ELSE LET chunk == hs.chunks[bm25_results[i][1]]
         IN  IF filter_tags # {} /\ ~HasAnyTag(chunk.tags, filter_tags)
             THEN SparseLoop(hs, bm25_results, i + 1, filtered_results, top_k, filter_tags)
             ELSE LET added == Append(filtered_results,
                                      <<chunk.chunk_id, bm25_results[i][2]>>)
                  IN  IF Len(added) >= top_k THEN added
                      ELSE SparseLoop(hs, bm25_results, i + 1, added, top_k, filter_tags)

\* A sparse path that forgets the tag filter.
SparseSearch_NoFilter(hs, query, top_k, filter_tags) ==
    SparseLoop(hs, BM25Search(hs.bm25_model, query, top_k * 2), 1, <<>>, top_k, {})

SparseSearch(hs, query, top_k, filter_tags) ==
    SparseLoop(hs, BM25Search(hs.bm25_model, query, top_k * 2), 1, <<>>, top_k,
               filter_tags)

Zero == <<0, 1>>

\* The fusion term with the rank counted one too low.
RrfTerm_OffByOne(weight, rank) == Rat(weight[1], weight[2] * (RrfK + rank))

\* weight / (k + rank + 1), rank counted from 0
RrfTerm(weight, rank) == Rat(weight[1], weight[2] * (RrfK + rank + 1))

\* A fusion that keeps the larger of the two terms.
CombineScores_Max(dense, sparse) == IF RatLess(dense, sparse) THEN sparse ELSE dense

\* scores[chunk_id]['rrf'] = scores[chunk_id]['dense'] + scores[chunk_id]['sparse']
CombineScores(dense, sparse) == RatAdd(dense, sparse)

Ids(results) == [r \in DOMAIN results |-> results[r][1]]

\* The keys of a dict in insertion order: each id once, at its first position.
RECURSIVE Dedupe(_)
Dedupe(ids) ==
    IF ids = <<>> THEN <<>>
    ELSE LET rest == Dedupe(SubSeq(ids, 1, Len(ids) - 1))
             last == ids[Len(ids)]
         IN  IF last \in Range(rest) THEN rest ELSE Append(rest, last)

\* The value a loop "for rank, (chunk_id, _) in enumerate(results)" leaves
\* for chunk_id: the term of its last position, 0 when it is not listed.
ListScore(results, chunk_id, weight) ==
    LET at == {r \in DOMAIN results : results[r][1] = chunk_id}
    IN  IF at = {} THEN Zero
        ELSE RrfTerm(weight, (CHOOSE r \in at : \A q \in at : q <= r) - 1)

SourceType(score_dict) ==
    IF score_dict.dense[1] > 0 /\ score_dict.sparse[1] > 0 THEN "hybrid"
    ELSE IF score_dict.dense[1] > 0 THEN "dense"
    ELSE "sparse"

\* _reciprocal_rank_fusion
ReciprocalRankFusion(hs, dense_results, sparse_results, top_k) ==
    LET keys == Dedupe(Ids(dense_results) \o Ids(sparse_results))
        OneMinusAlpha == <<hs.alpha[2] - hs.alpha[1], hs.alpha[2]>>
        scores ==
            [n \in DOMAIN keys |->
                LET dense == ListScore(dense_results, keys[n], hs.alpha)
                    sparse == ListScore(sparse_results, keys[n], OneMinusAlpha)
                IN  <<[chunk_id |-> keys[n], dense |-> dense, sparse |-> sparse],
                      CombineScores(dense, sparse)>>]
        sorted_chunks == Take(SortDesc(scores), top_k)
        known == SelectSeq(sorted_chunks,
                           LAMBDA e : e[1].chunk_id \in DOMAIN hs.chunk_id_to_idx)
    IN  [n \in DOMAIN known |->
            LET chunk == hs.chunks[hs.chunk_id_to_idx[known[n][1].chunk_id]]
            IN  [chunk_id |-> known[n][1].chunk_id,
                 content |-> chunk.content,
                 score |-> known[n][2],
                 post_title |-> chunk.post_title,
                 section_heading |-> chunk.section_heading,
                 tags |-> chunk.tags,
                 source_type |-> SourceType(known[n][1])]]

\* An overlap measured against the number of terms of the text.
Overlap_OfTextTerms(query_terms, text) ==
    Rat(Cardinality(query_terms \cap Range(text)), Cardinality(Range(text)))

\* len(query_terms & terms) / len(query_terms)
Overlap(query_terms, text) ==
    Rat(Cardinality(query_terms \cap Range(text)), Cardinality(query_terms))

\* _rerank_results: len(query_terms) is a divisor
RerankRaises(query, results) == results # <<>> /\ Range(query) = {}

RerankScore(query, result) ==
    LET query_terms == Range(query)
        content_overlap == Overlap(query_terms, result.content)
        title_overlap == Overlap(query_terms, result.post_title)
        section_bonus ==
            IF result.section_heading # <<>>
            THEN RatMul(Overlap(query_terms, result.section_heading), <<1, 2>>)
            ELSE Zero
    IN  RatAdd(RatAdd(RatMul(result.score, <<4, 10>>),
                      RatMul(content_overlap, <<3, 10>>)),
               RatAdd(RatMul(title_overlap, <<2, 10>>),
                      RatMul(section_bonus, <<1, 10>>)))

\* A reranker that also drops the results whose content shares no term
\* with the query.
RerankResults_MatchingOnly(query, results, top_k) ==
    LET matching == SelectSeq(results,
                              LAMBDA r : Range(query) \cap Range(r.content) # {})
        reranked ==
            [n \in DOMAIN matching |->
                <<[matching[n] EXCEPT !.score = RerankScore(query, matching[n])],
                  RerankScore(query, matching[n])>>]
        sorted == Take(SortDesc(reranked), top_k)
    IN  [n \in DOMAIN sorted |-> sorted[n][1]]

RerankResults(query, results, top_k) ==
    LET reranked ==
            [n \in DOMAIN results |->
                <<[results[n] EXCEPT !.score = RerankScore(query, results[n])],
                  RerankScore(query, results[n])>>]
        sorted == Take(SortDesc(reranked), top_k)
    IN  [n \in DOMAIN sorted |-> sorted[n][1]]

NoFusion ==
    [called |-> FALSE, dense |-> <<>>, sparse |-> <<>>, top_k |-> 0, merged |-> <<>>]

NoSparse ==
    [called |-> FALSE, query |-> <<>>, top_k |-> 0, filter_tags |-> {},
     scores |-> <<>>, sparse |-> <<>>]

NoBm25 == [called |-> FALSE, query |-> <<>>, top_k |-> 0, scores |-> <<>>, results |-> <<>>]

NoTf ==
    [called |-> FALSE, query |-> <<>>, doc_index |-> 0, token |-> "",
     before |-> 0, after |-> 0]

NoStoreSearch ==
    [called |-> FALSE, sim |-> <<>>, top_k |-> 0, filter_tags |-> {},
     filtered |-> <<>>, unfiltered |-> <<>>]

NoReload ==
    [phase |-> "new", raised |-> FALSE, embedding_store |-> EmbeddingStore(0),
     bm25_model |-> NewBM25, query |-> <<>>, top_k |-> 0, filter_tags |-> {},
     sim |-> <<>>, same |-> TRUE]

NoFit == [fits |-> 0, documents |-> <<>>, model |-> NewBM25]

\* The threads that serve requests at the same time.
Clients == {"t1", "t2"}

NoCall ==
    [stage |-> "idle", query |-> <<>>, top_k |-> 0, filter_tags |-> {},
     rerank |-> FALSE, sim |-> <<>>, found |-> <<>>, dense |-> <<>>,
     sparse |-> <<>>, merged |-> <<>>, status |-> "none", results |-> <<>>]

NoCalls == [c \in Clients |-> NoCall]

NoChunking ==
    [called |-> FALSE, max_tokens |-> 0, overlap_tokens |-> 0, posts |-> <<>>,
     sections |-> <<>>, all_chunks |-> <<>>, chunk_id_to_idx |-> <<>>]

NoSearch ==
    [called |-> FALSE, query |-> <<>>, top_k |-> 0, filter_tags |-> {},
     rerank |-> FALSE, sim |-> <<>>, dense |-> <<>>, sparse |-> <<>>,
     merged |-> <<>>, status |-> "none", results |-> <<>>]

\* HybridSearch.search, given the result list the store returned
SearchCall(hs, query, top_k, filter_tags, rerank, sim, found) ==
    LET dense_results == DenseResults(found)
        sparse_results == SparseSearch(hs, query, top_k * 2, filter_tags)
        merged_results == ReciprocalRankFusion(hs, dense_results, sparse_results, top_k)
        raises == rerank /\ RerankRaises(query, merged_results)
    IN  [called |-> TRUE, query |-> query, top_k |-> top_k,
         filter_tags |-> filter_tags, rerank |-> rerank, sim |-> sim,
         dense |-> dense_results, sparse |-> sparse_results,
         merged |-> merged_results,
         status |-> IF raises THEN "ZeroDivisionError" ELSE "ok",
         results |-> IF raises THEN <<>>
                     ELSE IF rerank /\ Len(merged_results) > 0
                          THEN RerankResults(query, merged_results, top_k)
                          ELSE merged_results]

(***************************************************************************)
(* backend/main.py: load_search_index with LocalDataLoader                 *)
(***************************************************************************)
EmptyAppState ==
    [chunks |-> None, embeddings |-> None, embedding_store |-> None,
     bm25_model |-> None, index_summary |-> None, index_status |-> None]

NothingLoaded == [f \in Files |-> 0]

Exists(f) == disk[f].state # "absent"

IsTorn(f) == disk[f].state = "torn"

LoadFails ==
    /\ rpc' = "error"
    /\ app_state' = [app_state EXCEPT !.index_status = "error"]
    /\ UNCHANGED loaded_run

\* LocalDataLoader.health_check
HealthCheck ==
    /\ rpc = "start"
    /\ IF Exists("chunks.json") /\ Exists("embeddings.npy") /\ Exists("bm25_index.pkl")
       THEN rpc' = "load_chunks" /\ UNCHANGED <<app_state, loaded_run>>
       ELSE LoadFails
    /\ UNCHANGED <<pipeline_vars, config_vars, search_vars, unit_vars>>

\* One load_* call of the loader: reads file f into app_state field fld.
Read(at, f, fld, next) ==
    /\ rpc = at
    /\ IF ~Exists(f) \/ IsTorn(f)
       THEN LoadFails
       ELSE /\ app_state' = [app_state EXCEPT ![fld] = disk[f].data]
            /\ loaded_run' = [loaded_run EXCEPT ![f] = disk[f].run]
            /\ rpc' = next
    /\ UNCHANGED <<pipeline_vars, config_vars, search_vars, unit_vars>>

LoadChunks == Read("load_chunks", "chunks.json", "chunks", "load_embeddings")

LoadEmbeddings == Read("load_embeddings", "embeddings.npy", "embeddings", "load_metadata")

\* load_metadata and the construction of the EmbeddingStore from it
LoadMetadata ==
    /\ rpc = "load_metadata"
    /\ IF ~Exists("metadata.json") \/ IsTorn("metadata.json")
       THEN LoadFails
       ELSE LET metadata == disk["metadata.json"].data
            IN  /\ app_state' =
                       [app_state EXCEPT
                           !.embedding_store =
                               [dimension |-> metadata.dimension,
                                embeddings |-> app_state.embeddings,
                                chunk_ids |-> metadata.chunk_ids,
                                metadata |-> metadata.metadata]]
                /\ loaded_run' =
                       [loaded_run EXCEPT !["metadata.json"] = disk["metadata.json"].run]
                /\ rpc' = "load_bm25"
    /\ UNCHANGED <<pipeline_vars, config_vars, search_vars, unit_vars>>

LoadBm25Index == Read("load_bm25", "bm25_index.pkl", "bm25_model", "load_summary")

\* load_index_summary: a missing summary is replaced by a default one.
LoadIndexSummary ==
    /\ rpc = "load_summary"
    /\ IF IsTorn("index_summary.json")
       THEN LoadFails
       ELSE /\ app_state' =
                   [app_state EXCEPT
                       !.index_summary =
                           IF Exists("index_summary.json")
                           THEN disk["index_summary.json"].data
                           ELSE [num_chunks |-> 0, embedding_dimension |-> None],
                       !.index_status = "ready"]
            /\ loaded_run' =
                   [loaded_run EXCEPT
                       !["index_summary.json"] = disk["index_summary.json"].run]
            /\ rpc' = "init_services"
    /\ UNCHANGED <<pipeline_vars, config_vars, search_vars, unit_vars>>

\* initialize_services: the serving EmbeddingService and HybridSearch are
\* constructed from what was loaded; nothing is compared.
InitializeServices ==
    /\ rpc = "init_services"
    /\ rpc' = "ready"
    /\ hybrid_search' =
           HybridSearch(app_state.embedding_store, app_state.bm25_model,
                        app_state.chunks, search_alpha)
    /\ UNCHANGED <<app_state, loaded_run, search_out>>
    /\ UNCHANGED <<pipeline_vars, config_vars, unit_vars>>

(***************************************************************************)
(* Spec: the pipeline.  SpecServe: the pipeline and the loader.             *)
(***************************************************************************)
\* No call of a single function has been made.
InitUnits ==
    /\ fusion_out = NoFusion
    /\ rank0_seen = {}
    /\ sparse_out = NoSparse
    /\ bm25_out = NoBm25
    /\ tf_out = NoTf
    /\ store_out = NoStoreSearch
    /\ chunk_out = NoChunking
    /\ reload_out = NoReload
    /\ fit_out = NoFit
    /\ calls = NoCalls

InitPipeline ==
    /\ pc = "idle"
    /\ run_no = 0
    /\ outcome = "none"
    /\ chunks = <<>>
    /\ all_embeddings = <<>>
    /\ batch_i = 0
    /\ embed_failed = FALSE
    /\ provider \in Providers
    /\ model_dim \in ModelDims
    /\ embedding_store = EmbeddingStore(IndexerDimension)
    /\ bm25 = NewBM25
    /\ disk = [f \in Files |-> Absent]
    /\ disk_at_start = [f \in Files |-> Absent]
    /\ rpc = "start"
    /\ app_state = EmptyAppState
    /\ loaded_run = NothingLoaded
    /\ hybrid_search = NoHybridSearch
    /\ search_out = NoSearch
    /\ InitUnits

Init == InitPipeline /\ srv_dim = DefaultDimension

InitServe == InitPipeline /\ srv_dim \in ModelDims

Next ==
    \/ RunNoPosts
    \/ RunLoadPosts
    \/ EmbedBatch
    \/ EmbedBatchRaises
    \/ StoreEmbeddings
    \/ BuildBm25Index
    \/ SaveFile
    \/ Crash
    \/ CrashMidWrite
    \/ NewIndexer

NextServe ==
    \/ Next
    \/ HealthCheck
    \/ LoadChunks
    \/ LoadEmbeddings
    \/ LoadMetadata
    \/ LoadBm25Index
    \/ LoadIndexSummary
    \/ InitializeServices

Spec == Init /\ [][Next]_vars

SpecServe == InitServe /\ [][NextServe]_vars

(***************************************************************************)
(* SpecSearch: queries against the index one run of a fresh BlogIndexer    *)
(* builds, held by a HybridSearch.                                         *)
(***************************************************************************)
\* generate_embeddings, the whole loop: the per-batch arrays from index i on
RECURSIVE EmbedInBatches(_, _, _, _)
EmbedInBatches(prov, texts, i, d) ==
    IF i >= Len(texts) THEN <<>>
    ELSE <<EmbedTexts(prov, BatchTexts(texts, i), d)>>
             \o EmbedInBatches(prov, texts, i + batch_size, d)

\* The store of a BlogIndexer after generate_embeddings on chunks cs
GenerateEmbeddings(store, prov, cs, d) ==
    AddEmbeddings(store, Combined(EmbedInBatches(prov, Texts(cs), 0, d)),
                  ChunkIds(cs), Metadata(cs))

\* Queries as word lists; the empty list is the empty or whitespace-only
\* query, <<"the">> a query of stop words only.
Queries == {<<>>, <<"dog">>, <<"cat", "fox">>, <<"dog", "fox">>, <<"the">>}

\* filter_tags; the empty set is None or []. No chunk carries "z".
Filters == {{}, {"x"}, {"y"}, {"x", "y"}, {"z"}}

\* The similarities of the rows of a store to a query embedding, in units
\* of 1/MaxSim: equal rows have equal similarity.
Similarities(store) ==
    LET n == MatLen(store.embeddings)
        rows == store.embeddings.rows
    IN  {sim \in [1..n -> 0..MaxSim] :
            \A i, j \in 1..n : rows[i] = rows[j] => sim[i] = sim[j]}

InitSearch ==
    /\ pc = "idle"
    /\ run_no = 1
    /\ outcome = "complete"
    /\ chunks = <<>>
    /\ all_embeddings = <<>>
    /\ batch_i = 0
    /\ embed_failed = FALSE
    /\ provider = "local"
    /\ model_dim = DefaultDimension
    /\ srv_dim = DefaultDimension
    /\ embedding_store = EmbeddingStore(IndexerDimension)
    /\ bm25 = NewBM25
    /\ disk = [f \in Files |-> Absent]
    /\ disk_at_start = [f \in Files |-> Absent]
    /\ rpc = "ready"
    /\ app_state = EmptyAppState
    /\ loaded_run = NothingLoaded
    /\ \E cs \in IndexedChoices, alpha \in Alphas :
           hybrid_search =
               HybridSearch(GenerateEmbeddings(EmbeddingStore(IndexerDimension),
                                               provider, cs, model_dim),
                            Fit(NewBM25, Texts(cs)), cs, alpha)
    /\ search_out = NoSearch
    /\ InitUnits

\* One call of HybridSearch.search; the server answers one request at a time.
Search ==
    /\ ~search_out.called
    /\ \E query \in Queries, top_k \in 1..MaxTopK, filter_tags \in Filters,
          rerank \in BOOLEAN, sim \in Similarities(hybrid_search.embedding_store) :
          \E found \in StoreSearch(hybrid_search.embedding_store, sim,
                                   top_k * 2, filter_tags) :
              search_out' = SearchCall(hybrid_search, query, top_k, filter_tags,
                                       rerank, sim, found)
    /\ UNCHANGED hybrid_search
    /\ UNCHANGED <<pipeline_vars, loader_vars, config_vars, unit_vars>>

\* The call has returned and its result list is handed to the caller.
SearchReturns ==
    /\ search_out.called
    /\ search_out' = NoSearch
    /\ UNCHANGED hybrid_search
    /\ UNCHANGED <<pipeline_vars, loader_vars, config_vars, unit_vars>>

NextSearch == Search \/ SearchReturns

SpecSearch == InitSearch /\ [][NextSearch]_vars

(***************************************************************************)
(* SpecFusion: _reciprocal_rank_fusion applied to candidate lists.         *)
(***************************************************************************)
\* The pipeline and the loader take no step: an index is in memory.
NoPipeline ==
    /\ pc = "idle"
    /\ run_no = 1
    /\ outcome = "complete"
    /\ chunks = <<>>
    /\ all_embeddings = <<>>
    /\ batch_i = 0
    /\ embed_failed = FALSE
    /\ provider = "local"
    /\ model_dim = DefaultDimension
    /\ srv_dim = DefaultDimension
    /\ embedding_store = EmbeddingStore(IndexerDimension)
    /\ bm25 = NewBM25
    /\ disk = [f \in Files |-> Absent]
    /\ disk_at_start = [f \in Files |-> Absent]
    /\ rpc = "ready"
    /\ app_state = EmptyAppState
    /\ loaded_run = NothingLoaded

\* The index of the first MaxIndexed chunks of the pool, searched with alpha
IndexOf(cs, alpha) ==
    HybridSearch(GenerateEmbeddings(EmbeddingStore(DefaultDimension), "local", cs,
                                    DefaultDimension),
                 Fit(NewBM25, Texts(cs)), cs, alpha)

\* Candidate lists: up to MaxFuseLen (chunk_id, score) pairs of distinct
\* chunks; fusion reads the ranks only.
FuseLists ==
    {<<>>} \cup
    UNION {{l \in [1..n -> {<<id, 0>> : id \in 1..MaxIndexed}] :
               \A i, j \in 1..n : l[i] = l[j] => i = j} : n \in 1..MaxFuseLen}

\* The candidates at rank 0 of a list in a fusion call, with the lists that
\* hold them and the fused score they were returned with.
Rank0(out) ==
    LET Lists(id) ==
            IF out.dense # <<>> /\ out.sparse # <<>>
               /\ out.dense[1][1] = id /\ out.sparse[1][1] = id THEN "both"
            ELSE IF out.dense # <<>> /\ out.dense[1][1] = id
                    /\ id \notin Range(Ids(out.sparse)) THEN "dense"
            ELSE IF out.sparse # <<>> /\ out.sparse[1][1] = id
                    /\ id \notin Range(Ids(out.dense)) THEN "sparse"
            ELSE "other"
    IN  {<<Lists(out.merged[n].chunk_id), out.merged[n].score>> :
            n \in {m \in DOMAIN out.merged : Lists(out.merged[m].chunk_id) # "other"}}

InitFusion ==
    /\ NoPipeline
    /\ \E alpha \in Alphas :
           hybrid_search = IndexOf([i \in 1..MaxIndexed |-> Chunk(i)], alpha)
    /\ search_out = NoSearch
    /\ InitUnits

\* One call of _reciprocal_rank_fusion
Fuse ==
    /\ ~fusion_out.called
    /\ \E dense_results \in FuseLists, sparse_results \in FuseLists,
          top_k \in 1..MaxTopK :
          LET out == [called |-> TRUE, dense |-> dense_results,
                      sparse |-> sparse_results, top_k |-> top_k,
                      merged |-> ReciprocalRankFusion(hybrid_search, dense_results,
                                                     sparse_results, top_k)]
          IN  /\ fusion_out' = out
              /\ rank0_seen' = rank0_seen \cup Rank0(out)
    /\ UNCHANGED <<bm25_vars, store_vars, chunker_vars, persist_vars, query_vars>>
    /\ UNCHANGED <<pipeline_vars, loader_vars, config_vars, search_vars>>

\* The call has returned.
FuseReturns ==
    /\ fusion_out.called
    /\ fusion_out' = NoFusion
    /\ UNCHANGED <<rank0_seen, bm25_vars, store_vars, chunker_vars, persist_vars, query_vars>>
    /\ UNCHANGED <<pipeline_vars, loader_vars, config_vars, search_vars>>

NextFusion == Fuse \/ FuseReturns

SpecFusion == InitFusion /\ [][NextFusion]_vars

(***************************************************************************)
(* SpecSparse: BM25 and _sparse_search applied to small corpora.           *)
(***************************************************************************)
\* The documents of the corpora: a text and the tags of its chunk.
DocPool ==
    {<<content, tags>> : content \in {<<"dog">>, <<"dog", "cat", "cat">>},
                         tags \in {{}, {"x"}}}

DocChunk(i, doc) ==
    [chunk_id |-> i, content |-> doc[1], post_title |-> <<"post">>,
     section_heading |-> <<>>, tags |-> doc[2]]

SparseCorpora ==
    UNION {{[i \in 1..n |-> DocChunk(i, docs[i])] : docs \in [1..n -> DocPool]} :
              n \in 0..MaxDocs}

SparseQueries == {<<"dog">>, <<"cat">>, <<"cat", "dog">>, <<"emu">>, <<"the">>}

InitSparse ==
    /\ NoPipeline
    /\ \E cs \in SparseCorpora : hybrid_search = IndexOf(cs, search_alpha)
    /\ search_out = NoSearch
    /\ InitUnits

NoCallOpen == ~sparse_out.called /\ ~bm25_out.called /\ ~tf_out.called

\* BM25.score of every document, in corpus order
AllScores(m, query) == [i \in 1..m.doc_count |-> BM25Score(m, query, i)]

\* HybridSearch.search, line 83: _sparse_search(query, top_k * 2, filter_tags)
SparseCall ==
    /\ NoCallOpen
    /\ \E query \in SparseQueries, top_k \in 1..MaxTopK, filter_tags \in {{}, {"x"}} :
           sparse_out' =
               [called |-> TRUE, query |-> query, top_k |-> top_k,
                filter_tags |-> filter_tags,
                scores |-> AllScores(hybrid_search.bm25_model, query),
                sparse |-> SparseSearch(hybrid_search, query, top_k * 2, filter_tags)]
    /\ UNCHANGED <<bm25_out, tf_out, fusion_vars, store_vars, chunker_vars, persist_vars, query_vars>>
    /\ UNCHANGED <<pipeline_vars, loader_vars, config_vars, search_vars>>

\* One call of BM25.search
Bm25Call ==
    /\ NoCallOpen
    /\ \E query \in SparseQueries, top_k \in 1..MaxTopK :
           bm25_out' =
               [called |-> TRUE, query |-> query, top_k |-> top_k,
                scores |-> AllScores(hybrid_search.bm25_model, query),
                results |-> BM25Search(hybrid_search.bm25_model, query, top_k)]
    /\ UNCHANGED <<sparse_out, tf_out, fusion_vars, store_vars, chunker_vars, persist_vars, query_vars>>
    /\ UNCHANGED <<pipeline_vars, loader_vars, config_vars, search_vars>>

\* BM25.score of document doc_index for a query, on the corpus as it is and
\* on the corpus refitted after the document gained one more occurrence
\* of token.
TfCall ==
    /\ NoCallOpen
    /\ \E query \in SparseQueries, doc_index \in DOMAIN hybrid_search.chunks,
          token \in {"dog", "cat"} :
           LET documents == Texts(hybrid_search.chunks)
               more == [documents EXCEPT ![doc_index] = Append(@, token)]
           IN  /\ token \in Range(Tokenize(query))
               /\ tf_out' =
                      [called |-> TRUE, query |-> query, doc_index |-> doc_index,
                       token |-> token,
                       before |-> BM25Score(Fit(NewBM25, documents), query, doc_index),
                       after |-> BM25Score(Fit(NewBM25, more), query, doc_index)]
    /\ UNCHANGED <<sparse_out, bm25_out, fusion_vars, store_vars, chunker_vars, persist_vars, query_vars>>
    /\ UNCHANGED <<pipeline_vars, loader_vars, config_vars, search_vars>>

\* The open call has returned.
CallReturns ==
    /\ ~NoCallOpen
    /\ sparse_out' = NoSparse
    /\ bm25_out' = NoBm25
    /\ tf_out' = NoTf
    /\ UNCHANGED <<fusion_vars, store_vars, chunker_vars, persist_vars, query_vars>>
    /\ UNCHANGED <<pipeline_vars, loader_vars, config_vars, search_vars>>

NextSparse == SparseCall \/ Bm25Call \/ TfCall \/ CallReturns

SpecSparse == InitSparse /\ [][NextSparse]_vars

(***************************************************************************)
(* SpecStore: EmbeddingStore.search applied to small stores.               *)
(***************************************************************************)
MaxRows == 3

\* The chunks whose embeddings the store holds: chunks with the same text
\* have the same embedding row.
StoreCorpora ==
    UNION {{[i \in 1..n |-> DocChunk(i, docs[i])] : docs \in [1..n -> DocPool]} :
              n \in 0..MaxRows}

InitStore ==
    /\ NoPipeline
    /\ \E cs \in StoreCorpora : hybrid_search = IndexOf(cs, search_alpha)
    /\ search_out = NoSearch
    /\ InitUnits

\* EmbeddingStore.search for one query embedding, with filter_tags and
\* top_k, and without a filter over every row.
StoreCall ==
    /\ ~store_out.called
    /\ LET store == hybrid_search.embedding_store
       IN  \E sim \in Similarities(store), top_k \in 1..MaxTopK,
              filter_tags \in {{}, {"x"}} :
               \E filtered \in StoreSearch(store, sim, top_k, filter_tags),
                  unfiltered \in StoreSearch(store, sim, MatLen(store.embeddings), {}) :
                   store_out' =
                       [called |-> TRUE, sim |-> sim, top_k |-> top_k,
                        filter_tags |-> filter_tags, filtered |-> filtered,
                        unfiltered |-> unfiltered]
    /\ UNCHANGED <<fusion_vars, bm25_vars, chunker_vars, persist_vars, query_vars>>
    /\ UNCHANGED <<pipeline_vars, loader_vars, config_vars, search_vars>>

\* The calls have returned.
StoreReturns ==
    /\ store_out.called
    /\ store_out' = NoStoreSearch
    /\ UNCHANGED <<fusion_vars, bm25_vars, chunker_vars, persist_vars, query_vars>>
    /\ UNCHANGED <<pipeline_vars, loader_vars, config_vars, search_vars>>

NextStore == StoreCall \/ StoreReturns

SpecStore == InitStore /\ [][NextStore]_vars

(***************************************************************************)
(* rag/chunker.py: MarkdownChunker. Here a text is the sequence of its     *)
(* characters and a document the sequence of its lines.                    *)
(***************************************************************************)
MaxLines == 3

MaxMaxTokens == 2

MaxOverlapTokens == 1

IdPrefixLen == 50

Whitespace == {" ", "\n"}

Terminators == {".", "!", "?"}

\* The backquote, written "~" here: three of them are a code fence.
Backquote == "~"

Fence == <<Backquote, Backquote, Backquote>>

H2Prefix == <<"#", "#", " ">>

H3Prefix == <<"#", "#", "#", " ">>

\* str.strip()
RECURSIVE Strip(_)
Strip(s) ==
    IF s = <<>> THEN s
    ELSE IF Head(s) \in Whitespace THEN Strip(Tail(s))
    ELSE IF s[Len(s)] \in Whitespace THEN Strip(SubSeq(s, 1, Len(s) - 1))
    ELSE s

\* sep.join(parts)
RECURSIVE Join(_, _)
Join(parts, sep) ==
    IF parts = <<>> THEN <<>>
    ELSE IF Len(parts) = 1 THEN parts[1]
    ELSE parts[1] \o sep \o Join(Tail(parts), sep)

\* len(text) // 4
EstimatedTokens(text) == Len(text) \div 4

\* A line that '^## (.+)$' (prefix H2Prefix) or '^### (.+)$' matches
IsHeading(line, prefix) ==
    Len(line) > Len(prefix) /\ SubSeq(line, 1, Len(prefix)) = prefix

\* re.split(pattern, content, flags=re.MULTILINE) for a heading pattern:
\* the lines before the first heading, then for every heading its captured
\* text followed by the lines up to the next heading.
RECURSIVE SplitAtHeadings(_, _)
SplitAtHeadings(lines, prefix) ==
    IF lines = <<>> THEN << <<>> >>
    ELSE LET rest == SplitAtHeadings(Tail(lines), prefix)
             line == Head(lines)
         IN  IF IsHeading(line, prefix)
             THEN << <<>>, SubSeq(line, Len(prefix) + 1, Len(line)) >> \o rest
             ELSE << <<line>> \o rest[1] >> \o Tail(rest)

\* chunk_document: the sections it hands to _create_chunks_from_section, in
\* order: the introduction, then for every level-2 heading its introduction
\* and its level-3 subsections. A section without a heading has <<>>.
Sections(lines) ==
    LET h2_sections == SplitAtHeadings(lines, H2Prefix)
        H2Section(i) ==
            LET h2_heading == h2_sections[i]
                h3_sections == SplitAtHeadings(h2_sections[i + 1], H3Prefix)
            IN  <<[section_heading |-> h2_heading,
                   content |-> Join(h3_sections[1], <<"\n">>)]>>
                \o [j \in 1..(Len(h3_sections) \div 2) |->
                       [section_heading |->
                            h2_heading \o <<" ", ">", " ">> \o h3_sections[2 * j],
                        content |-> Join(h3_sections[2 * j + 1], <<"\n">>)]]
    IN  <<[section_heading |-> <<>>, content |-> Join(h2_sections[1], <<"\n">>)]>>
        \o Flatten([k \in 1..(Len(h2_sections) \div 2) |-> H2Section(2 * k)])

\* The index of the first fence at or after i, or 0
RECURSIVE FindFence(_, _)
FindFence(text, i) ==
    IF i + 2 > Len(text) THEN 0
    ELSE IF SubSeq(text, i, i + 2) = Fence THEN i
    ELSE FindFence(text, i + 1)

\* re.findall(code_block_pattern, text) from index i on: the first and last
\* index of every code block, each from a fence to the nearest fence after it
RECURSIVE CodeBlocks(_, _)
CodeBlocks(text, i) ==
    LET open == FindFence(text, i)
        close == IF open = 0 THEN 0 ELSE FindFence(text, open + 3)
    IN  IF close = 0 THEN <<>>
        ELSE << <<open, close + 2>> >> \o CodeBlocks(text, close + 3)

\* The last index of the whitespace run that starts at i
RECURSIVE RunEnd(_, _)
RunEnd(text, i) ==
    IF i < Len(text) /\ text[i + 1] \in Whitespace THEN RunEnd(text, i + 1) ELSE i

\* str.replace(old, new): every occurrence of old, from left to right
RECURSIVE Replace(_, _, _)
Replace(text, old, new) ==
    IF Len(text) < Len(old) THEN text
    ELSE IF SubSeq(text, 1, Len(old)) = old
         THEN new \o Replace(SubSeq(text, Len(old) + 1, Len(text)), old, new)
         ELSE <<Head(text)>> \o Replace(Tail(text), old, new)

\* The placeholder of code block i, kept as one character of the text
Placeholder(i) == "__CODE_BLOCK_" \o ToString(i) \o "__"

\* for i, block in enumerate(code_blocks): text.replace(block, placeholder)
RECURSIVE HideCodeBlocks(_, _, _)
HideCodeBlocks(text, code_blocks, i) ==
    IF i >= Len(code_blocks) THEN text
    ELSE HideCodeBlocks(Replace(text, code_blocks[i + 1], <<Placeholder(i)>>),
                        code_blocks, i + 1)

\* for i, block in enumerate(code_blocks): s.replace(placeholder, block)
RECURSIVE RestoreCodeBlocks(_, _, _)
RestoreCodeBlocks(sentence, code_blocks, i) ==
    IF i >= Len(code_blocks) THEN sentence
    ELSE RestoreCodeBlocks(Replace(sentence, <<Placeholder(i)>>, code_blocks[i + 1]),
                           code_blocks, i + 1)

\* re.split(r'(?<=[.!?])\s+', text): the sentences from index start on,
\* scanning at i
RECURSIVE SentenceScan(_, _, _)
SentenceScan(text, start, i) ==
    IF i > Len(text) THEN <<SubSeq(text, start, Len(text))>>
    ELSE IF /\ i > 1
            /\ text[i] \in Whitespace
            /\ text[i - 1] \in Terminators
         THEN <<SubSeq(text, start, i - 1)>>
              \o SentenceScan(text, RunEnd(text, i) + 1, RunEnd(text, i) + 1)
         ELSE SentenceScan(text, start, i + 1)

SplitIntoSentences(text) ==
    LET blocks == CodeBlocks(text, 1)
        code_blocks == [i \in DOMAIN blocks |-> SubSeq(text, blocks[i][1], blocks[i][2])]
        sentences == SentenceScan(HideCodeBlocks(text, code_blocks, 0), 1, 1)
    IN  [n \in DOMAIN sentences |-> RestoreCodeBlocks(sentences[n], code_blocks, 0)]

\* str(position)
RECURSIVE Str(_)
Str(n) ==
    LET digits == <<"0", "1", "2", "3", "4", "5", "6", "7", "8", "9">>
    IN  IF n < 10 THEN <<digits[n + 1]>>
        ELSE Append(Str(n \div 10), digits[(n % 10) + 1])

\* The string _create_chunk hashes into chunk_id. The id is the first 16 hex
\* digits of its md5; the model takes the digest to be one-to-one, so two
\* ids are equal exactly when the hashed strings are.
ChunkId(post_slug, position, content) ==
    post_slug \o <<"_">> \o Str(position) \o <<"_">> \o Take(content, IdPrefixLen)

CreateChunk(content, post_slug, section_heading, position) ==
    [chunk_id |-> ChunkId(post_slug, position, content),
     content |-> content,
     post_slug |-> post_slug,
     section_heading |-> section_heading,
     position |-> position,
     token_count |-> EstimatedTokens(content)]

\* An overlap that repeats the whole chunk, whatever overlap_tokens is.
OverlapSentences_WholeChunk(current_chunk, left) == current_chunk

\* The overlap loop: the last sentences of current_chunk, taken from the end
\* while their estimated tokens fit in what is left of overlap_tokens
RECURSIVE OverlapSentences(_, _)
OverlapSentences(current_chunk, left) ==
    IF current_chunk = <<>> THEN <<>>
    ELSE LET sent == current_chunk[Len(current_chunk)]
         IN  IF EstimatedTokens(sent) <= left
             THEN Append(OverlapSentences(
                             SubSeq(current_chunk, 1, Len(current_chunk) - 1),
                             left - EstimatedTokens(sent)),
                         sent)
             ELSE <<>>

\* The sentence loop of _create_chunks_from_section: the contents of the
\* chunks it emits, out being those emitted so far
RECURSIVE PackSentences(_, _, _, _, _, _)
PackSentences(sentences, current_chunk, current_tokens, out, max_tokens, overlap_tokens) ==
    IF sentences = <<>>
    THEN IF current_chunk # <<>> THEN Append(out, Join(current_chunk, <<" ">>))
         ELSE out
    ELSE LET sentence == Head(sentences)
             sentence_tokens == EstimatedTokens(sentence)
             saved == IF current_chunk # <<>>
                      THEN Append(out, Join(current_chunk, <<" ">>)) ELSE out
             overlap_sentences ==
                 IF overlap_tokens > 0 /\ current_chunk # <<>>
                 THEN OverlapSentences(current_chunk, overlap_tokens) ELSE <<>>
         IN  IF current_tokens + sentence_tokens <= max_tokens
             THEN PackSentences(Tail(sentences), Append(current_chunk, sentence),
                                current_tokens + sentence_tokens, out,
                                max_tokens, overlap_tokens)
             ELSE PackSentences(Tail(sentences),
                                Append(overlap_sentences, sentence),
                                SumSeq([i \in DOMAIN overlap_sentences |->
                                           EstimatedTokens(overlap_sentences[i])])
                                    + sentence_tokens,
                                saved, max_tokens, overlap_tokens)

CreateChunksFromSection(content, post_slug, section_heading, position, max_tokens, overlap_tokens) ==
    LET text == Strip(content)
        contents ==
            IF text = <<>> THEN <<>>
            ELSE IF EstimatedTokens(text) <= max_tokens THEN <<text>>
            ELSE PackSentences(SplitIntoSentences(text), <<>>, 0, <<>>,
                               max_tokens, overlap_tokens)
    IN  [n \in DOMAIN contents |->
            CreateChunk(contents[n], post_slug, section_heading, position + n - 1)]

\* A numbering that counts sections instead of chunks.
NextPosition_PerSection(position, section_chunks) == position + 1

\* position = len(chunks) and position += len(section_chunks)
NextPosition(position, section_chunks) == position + Len(section_chunks)

\* chunk_document, section by section: the chunk lists of the sections
RECURSIVE ChunkSections(_, _, _, _, _)
ChunkSections(sections, position, post_slug, max_tokens, overlap_tokens) ==
    IF sections = <<>> THEN <<>>
    ELSE LET section_chunks ==
                 CreateChunksFromSection(Head(sections).content, post_slug,
                                         Head(sections).section_heading, position,
                                         max_tokens, overlap_tokens)
         IN  <<section_chunks>>
             \o ChunkSections(Tail(sections),
                              NextPosition(position, section_chunks),
                              post_slug, max_tokens, overlap_tokens)

ChunkDocument(lines, post_slug, max_tokens, overlap_tokens) ==
    Flatten(ChunkSections(Sections(lines), 0, post_slug, max_tokens, overlap_tokens))

(***************************************************************************)
(* SpecChunker: process_posts applied to small posts.                      *)
(***************************************************************************)
\* The lines posts are written from: a level-2 and a level-3 heading, a
\* sentence of 0 estimated tokens, a line of two sentences of 1 estimated
\* token each, words without a terminator, a fenced code block with a
\* sentence end inside, and a fence on a line of its own, which opens or
\* closes a code block of several lines.
LinePool ==
    { <<"#", "#", " ", "A">>,
      <<"#", "#", "#", " ", "B">>,
      <<"q", "q", ".">>,
      <<"q", "q", "q", "q", ".", " ", "0", "_", "x", "x">>,
      <<"x", "x">>,
      Fence \o <<"q", ".", " ", "q">> \o Fence,
      Fence }

DocChoices(n) == UNION {[1..k -> LinePool] : k \in 0..n}

\* Slugs are file stems: "a" and "a_1".
SlugA == <<"a">>

SlugA1 == <<"a", "_", "1">>

\* The post lists handed to process_posts: one post of up to MaxLines
\* lines, or a shorter post followed by a one-line post with another slug.
PostChoices ==
    {<<[slug |-> slug, lines |-> lines]>> :
        slug \in {SlugA, SlugA1}, lines \in DocChoices(MaxLines)}
    \cup {<<[slug |-> SlugA, lines |-> lines], [slug |-> SlugA1, lines |-> <<line>>]>> :
            lines \in DocChoices(MaxLines - 1), line \in LinePool}

InitChunker ==
    /\ NoPipeline
    /\ hybrid_search = NoHybridSearch
    /\ search_out = NoSearch
    /\ InitUnits

\* BlogIndexer.process_posts over one list of posts, with the chunk lists
\* of the sections of every post, and the join map HybridSearch builds
\* over the chunks.
ProcessPosts ==
    /\ ~chunk_out.called
    /\ \E posts \in PostChoices, max_tokens \in 1..MaxMaxTokens,
          overlap_tokens \in 0..MaxOverlapTokens :
           LET sections ==
                   [p \in DOMAIN posts |->
                       ChunkSections(Sections(posts[p].lines), 0, posts[p].slug,
                                     max_tokens, overlap_tokens)]
               all_chunks ==
                   Flatten([p \in DOMAIN posts |->
                               ChunkDocument(posts[p].lines, posts[p].slug,
                                             max_tokens, overlap_tokens)])
           IN  chunk_out' =
                   [called |-> TRUE, max_tokens |-> max_tokens,
                    overlap_tokens |-> overlap_tokens, posts |-> posts,
                    sections |-> sections, all_chunks |-> all_chunks,
                    chunk_id_to_idx |-> ChunkIdToIdx(all_chunks)]
    /\ UNCHANGED <<fusion_vars, bm25_vars, store_vars, persist_vars, query_vars>>
    /\ UNCHANGED <<pipeline_vars, loader_vars, config_vars, search_vars>>

\* process_posts has returned.
ChunkerReturns ==
    /\ chunk_out.called
    /\ chunk_out' = NoChunking
    /\ UNCHANGED <<fusion_vars, bm25_vars, store_vars, persist_vars, query_vars>>
    /\ UNCHANGED <<pipeline_vars, loader_vars, config_vars, search_vars>>

NextChunker == ProcessPosts \/ ChunkerReturns

SpecChunker == InitChunker /\ [][NextChunker]_vars

(***************************************************************************)
(* SpecPersist: EmbeddingStore.save and BM25.save into an empty directory, *)
(* EmbeddingStore.load and BM25.load from it, and probe queries against    *)
(* the saved and the loaded index.                                         *)
(***************************************************************************)
\* The store of a BlogIndexer before and after generate_embeddings, and the
\* model build_bm25_index returns, for a chunk list of the pool.
InitPersist ==
    /\ pc = "idle"
    /\ run_no = 1
    /\ outcome = "complete"
    /\ chunks = <<>>
    /\ all_embeddings = <<>>
    /\ batch_i = 0
    /\ embed_failed = FALSE
    /\ provider = "local"
    /\ model_dim = DefaultDimension
    /\ srv_dim = DefaultDimension
    /\ \E cs \in IndexedChoices, added \in BOOLEAN :
           /\ embedding_store =
                  IF added
                  THEN GenerateEmbeddings(EmbeddingStore(DefaultDimension), "local",
                                          cs, DefaultDimension)
                  ELSE EmbeddingStore(DefaultDimension)
           /\ bm25 = Fit(NewBM25, Texts(cs))
    /\ disk = [f \in Files |-> Absent]
    /\ disk_at_start = [f \in Files |-> Absent]
    /\ rpc = "ready"
    /\ app_state = EmptyAppState
    /\ loaded_run = NothingLoaded
    /\ hybrid_search = NoHybridSearch
    /\ search_out = NoSearch
    /\ InitUnits

\* EmbeddingStore.save and BM25.save
SaveIndex ==
    /\ reload_out.phase = "new"
    /\ disk' = [f \in Files |->
                   IF f \in {"embeddings.npy", "metadata.json", "bm25_index.pkl"}
                   THEN Written(f) ELSE disk[f]]
    /\ reload_out' = [reload_out EXCEPT !.phase = "saved"]
    /\ UNCHANGED <<pc, run_no, outcome, chunks, all_embeddings, batch_i,
                   embed_failed, embedding_store, bm25, disk_at_start, fit_out>>
    /\ UNCHANGED <<loader_vars, config_vars, search_vars>>
    /\ UNCHANGED <<fusion_vars, bm25_vars, store_vars, chunker_vars, query_vars>>

\* EmbeddingStore.load and BM25.load: np.load raises when the matrix file
\* is not there.
LoadIndex ==
    /\ reload_out.phase = "saved"
    /\ reload_out' =
           IF ~Exists("embeddings.npy")
           THEN [reload_out EXCEPT !.phase = "loaded", !.raised = TRUE]
           ELSE [reload_out EXCEPT
                    !.phase = "loaded",
                    !.embedding_store =
                        [dimension |-> disk["metadata.json"].data.dimension,
                         embeddings |-> disk["embeddings.npy"].data,
                         chunk_ids |-> disk["metadata.json"].data.chunk_ids,
                         metadata |-> disk["metadata.json"].data.metadata],
                    !.bm25_model = disk["bm25_index.pkl"].data]
    /\ UNCHANGED <<pipeline_vars, loader_vars, config_vars, search_vars, fit_out>>
    /\ UNCHANGED <<fusion_vars, bm25_vars, store_vars, chunker_vars, query_vars>>

\* One probe: EmbeddingStore.search and BM25.search on the saved and on the
\* loaded index
ProbeIndex ==
    /\ reload_out.phase = "loaded"
    /\ ~reload_out.raised
    /\ \E query \in Queries, top_k \in 1..MaxTopK, filter_tags \in Filters,
          sim \in Similarities(embedding_store) :
           reload_out' =
               [reload_out EXCEPT
                   !.phase = "probed",
                   !.query = query, !.top_k = top_k,
                   !.filter_tags = filter_tags, !.sim = sim,
                   !.same =
                       /\ StoreSearch(embedding_store, sim, top_k, filter_tags)
                              = StoreSearch(reload_out.embedding_store, sim, top_k,
                                            filter_tags)
                       /\ BM25Search(bm25, query, top_k)
                              = BM25Search(reload_out.bm25_model, query, top_k)]
    /\ UNCHANGED <<pipeline_vars, loader_vars, config_vars, search_vars, fit_out>>
    /\ UNCHANGED <<fusion_vars, bm25_vars, store_vars, chunker_vars, query_vars>>

\* The probe has returned.
ProbeReturns ==
    /\ reload_out.phase = "probed"
    /\ reload_out' =
           [reload_out EXCEPT
               !.phase = "loaded", !.query = NoReload.query,
               !.top_k = NoReload.top_k, !.filter_tags = NoReload.filter_tags,
               !.sim = NoReload.sim, !.same = NoReload.same]
    /\ UNCHANGED <<pipeline_vars, loader_vars, config_vars, search_vars, fit_out>>
    /\ UNCHANGED <<fusion_vars, bm25_vars, store_vars, chunker_vars, query_vars>>

NextPersist == SaveIndex \/ LoadIndex \/ ProbeIndex \/ ProbeReturns

SpecPersist == InitPersist /\ [][NextPersist]_vars

(***************************************************************************)
(* SpecQueries: two threads call HybridSearch.search on one HybridSearch   *)
(* object; a thread may be preempted between any two statements of search. *)
(***************************************************************************)
\* The queries the threads send.
ClientQueries == {<<"dog">>, <<"cat", "fox">>}

\* The tag filters the threads send.
ClientFilters == {{}, {"x"}}

\* embed_query and the cosine similarity: the embedding model is a fixed
\* function, so the similarities of the rows to a query are a function of
\* the query and the rows' texts; here, in whole units, a row is the more
\* similar the more words its text shares with the query, then the longer
\* its text is.
QuerySim(store, query) ==
    [i \in 1..MatLen(store.embeddings) |->
        LET text == store.embeddings.rows[i].of
        IN  4 * Cardinality(Range(text) \cap Range(query)) + Len(text)]

\* SearchStep, had search kept its dense list on self, where the call that
\* ran _dense_search last overwrites it.
SearchStep_ListOnSelf(hs, all, c, found) ==
    LET call == all[c]
        other == CHOOSE d \in Clients : d # c
        dense_results == IF all[other].stage \in {"sparse", "fuse", "rerank"}
                         THEN all[other].dense ELSE call.dense
    IN  CASE call.stage = "dense" ->
                 [call EXCEPT !.stage = "sparse", !.found = found,
                              !.dense = DenseResults(found)]
          [] call.stage = "sparse" ->
                 [call EXCEPT !.stage = "fuse",
                              !.sparse = SparseSearch(hs, call.query, call.top_k * 2,
                                                      call.filter_tags)]
          [] call.stage = "fuse" ->
                 [call EXCEPT !.stage = "rerank",
                              !.merged = ReciprocalRankFusion(hs, dense_results,
                                                              call.sparse, call.top_k)]
          [] call.stage = "rerank" ->
                 IF call.rerank /\ Len(call.merged) > 0
                 THEN IF RerankRaises(call.query, call.merged)
                      THEN [call EXCEPT !.stage = "done",
                                        !.status = "ZeroDivisionError"]
                      ELSE [call EXCEPT !.stage = "done", !.status = "ok",
                                        !.results = RerankResults(call.query, call.merged,
                                                                  call.top_k)]
                 ELSE [call EXCEPT !.stage = "done", !.status = "ok",
                                   !.results = call.merged]

\* HybridSearch.search, one statement: the locals of thread c's call after
\* its next statement.  Every statement reads self and the call's own locals.
SearchStep(hs, all, c, found) ==
    LET call == all[c]
    IN  CASE call.stage = "dense" ->
                 [call EXCEPT !.stage = "sparse", !.found = found,
                              !.dense = DenseResults(found)]
          [] call.stage = "sparse" ->
                 [call EXCEPT !.stage = "fuse",
                              !.sparse = SparseSearch(hs, call.query, call.top_k * 2,
                                                      call.filter_tags)]
          [] call.stage = "fuse" ->
                 [call EXCEPT !.stage = "rerank",
                              !.merged = ReciprocalRankFusion(hs, call.dense,
                                                              call.sparse, call.top_k)]
          [] call.stage = "rerank" ->
                 IF call.rerank /\ Len(call.merged) > 0
                 THEN IF RerankRaises(call.query, call.merged)
                      THEN [call EXCEPT !.stage = "done",
                                        !.status = "ZeroDivisionError"]
                      ELSE [call EXCEPT !.stage = "done", !.status = "ok",
                                        !.results = RerankResults(call.query, call.merged,
                                                                  call.top_k)]
                 ELSE [call EXCEPT !.stage = "done", !.status = "ok",
                                   !.results = call.merged]

\* The chunk lists the threads' index is built from: MaxIndexed chunks of
\* the pool.
ServedChoices == {cs \in IndexedChoices : Len(cs) = MaxIndexed}

InitQueries ==
    /\ NoPipeline
    /\ \E cs \in ServedChoices :
           hybrid_search =
               HybridSearch(GenerateEmbeddings(EmbeddingStore(IndexerDimension),
                                               provider, cs, model_dim),
                            Fit(NewBM25, Texts(cs)), cs, search_alpha)
    /\ search_out = NoSearch
    /\ InitUnits

\* A thread enters search with the arguments of its request.
QueryArrives(c) ==
    /\ calls[c].stage = "idle"
    /\ \E query \in ClientQueries, top_k \in 1..MaxTopK,
          filter_tags \in ClientFilters, rerank \in BOOLEAN :
           calls' = [calls EXCEPT ![c] =
                        [NoCall EXCEPT
                            !.stage = "dense", !.query = query, !.top_k = top_k,
                            !.filter_tags = filter_tags, !.rerank = rerank,
                            !.sim = QuerySim(hybrid_search.embedding_store, query)]]
    /\ UNCHANGED hybrid_search
    /\ UNCHANGED <<pipeline_vars, loader_vars, config_vars, search_out>>
    /\ UNCHANGED <<fusion_vars, bm25_vars, store_vars, chunker_vars, persist_vars>>

\* The thread runs its next statement.
QueryStep(c) ==
    /\ calls[c].stage \notin {"idle", "done"}
    /\ \E found \in IF calls[c].stage = "dense"
                    THEN StoreSearch(hybrid_search.embedding_store, calls[c].sim,
                                     calls[c].top_k * 2, calls[c].filter_tags)
                    ELSE {calls[c].found} :
           calls' = [calls EXCEPT ![c] = SearchStep(hybrid_search, calls, c, found)]
    /\ UNCHANGED hybrid_search
    /\ UNCHANGED <<pipeline_vars, loader_vars, config_vars, search_out>>
    /\ UNCHANGED <<fusion_vars, bm25_vars, store_vars, chunker_vars, persist_vars>>

\* search returns its list to the request handler.
QueryReturns(c) ==
    /\ calls[c].stage = "done"
    /\ calls' = [calls EXCEPT ![c] = NoCall]
    /\ UNCHANGED hybrid_search
    /\ UNCHANGED <<pipeline_vars, loader_vars, config_vars, search_out>>
    /\ UNCHANGED <<fusion_vars, bm25_vars, store_vars, chunker_vars, persist_vars>>

NextQueries == \E c \in Clients : QueryArrives(c) \/ QueryStep(c) \/ QueryReturns(c)

SpecQueries == InitQueries /\ [][NextQueries]_vars

(***************************************************************************)
(* SpecFit: BM25.fit called again and again on one BM25 instance.          *)
(***************************************************************************)
\* The most fit calls made on one instance.
MaxFits == 3

\* The corpora fit is called on: the texts of chunk lists of the pool.
FitCorpora == {Texts(cs) : cs \in CorpusChoices \cup IndexedChoices}

InitFit ==
    /\ NoPipeline
    /\ hybrid_search = NoHybridSearch
    /\ search_out = NoSearch
    /\ InitUnits

\* bm25.fit(documents)
FitCall ==
    /\ fit_out.fits < MaxFits
    /\ \E documents \in FitCorpora :
           fit_out' = [fits |-> fit_out.fits + 1,
                       documents |-> documents,
                       model |-> Fit(fit_out.model, documents)]
    /\ UNCHANGED <<pipeline_vars, loader_vars, config_vars, search_vars, reload_out>>
    /\ UNCHANGED <<fusion_vars, bm25_vars, store_vars, chunker_vars, query_vars>>

\* bm25 = BM25(): the caller drops the instance and constructs a new one.
NewInstance ==
    /\ fit_out.fits > 0
    /\ fit_out' = NoFit
    /\ UNCHANGED <<pipeline_vars, loader_vars, config_vars, search_vars, reload_out>>
    /\ UNCHANGED <<fusion_vars, bm25_vars, store_vars, chunker_vars, query_vars>>

NextFit == FitCall \/ NewInstance

SpecFit == InitFit /\ [][NextFit]_vars

(***************************************************************************)
(* Claims about the pipeline (Spec) and the loader (SpecServe)             *)
(***************************************************************************)

\* C1: a run that crashes or fails, also part-way through persisting, leaves
\* the artifact set that was on disk when it started exactly as it was.
C1_FailedRunLeavesPriorSet ==
    outcome \in {"crashed", "aborted"} => disk = disk_at_start

\* C2: a loader that finished loading holds artifacts of one pipeline run
\* only: no two files it read were written by different runs.
C2_LoaderHoldsOneRun ==
    rpc = "ready" =>
        \A f, g \in Files :
            loaded_run[f] # 0 /\ loaded_run[g] # 0 => loaded_run[f] = loaded_run[g]

\* C3: once the embedding provider has raised on a batch of a run, nothing
\* of that run is persisted: the disk stays as it was when the run started.
C3_EmbedFailurePersistsNothing == embed_failed => disk = disk_at_start

\* C3 witness: a run over an already published index was aborted by the
\* provider raising, after an earlier run had completed.
C3_Witness ==
    /\ embed_failed
    /\ outcome = "aborted"
    /\ run_no >= 2
    /\ \A f \in Files : disk[f].state = "ok"

\* C4: the artifact set a completed run persisted has one matrix row, one
\* chunk id, one metadata entry and one BM25 document per persisted chunk.
C4_RunRebuildsFromScratch ==
    outcome = "complete" =>
        LET n == Len(disk["chunks.json"].data)
            md == disk["metadata.json"].data
        IN  /\ MatLen(disk["embeddings.npy"].data) = n
            /\ Len(md.chunk_ids) = n
            /\ Len(md.metadata) = n
            /\ disk["bm25_index.pkl"].data.doc_count = n

\* C5: after embedding generation, chunk_ids is the chunk list's ids in
\* chunk-list order and row i of the matrix is the embedding of chunk i's text.
C5_RowsFollowChunkOrder ==
    pc = "bm25" =>
        /\ embedding_store.chunk_ids = ChunkIds(chunks)
        /\ MatLen(embedding_store.embeddings) = Len(chunks)
        /\ \A i \in 1..MatLen(embedding_store.embeddings) :
               i <= Len(chunks) =>
                   embedding_store.embeddings.rows[i] = Vec(chunks[i].content, model_dim)

\* C6: the loader never reaches "ready" with a store whose recorded
\* dimension differs from the serving provider's output dimension.
C6_MismatchFailsLoad ==
    rpc = "ready" => app_state.embedding_store.dimension = srv_dim

(***************************************************************************)
(* Claims about HybridSearch.search (SpecSearch)                           *)
(***************************************************************************)

\* C7: with a non-empty tag filter, every chunk HybridSearch.search returns
\* carries at least one of the filter tags, and so does every chunk of the
\* dense list and of the sparse list the result was fused from.
C7_FilteredResultsCarryATag ==
    search_out.called /\ search_out.filter_tags # {} =>
        LET TagsOf(id) == hybrid_search.chunks[hybrid_search.chunk_id_to_idx[id]].tags
            Carries(tags) == \E t \in search_out.filter_tags : t \in tags
        IN  /\ \A n \in DOMAIN search_out.results : Carries(search_out.results[n].tags)
            /\ \A n \in DOMAIN search_out.results :
                   Carries(TagsOf(search_out.results[n].chunk_id))
            /\ \A n \in DOMAIN search_out.dense : Carries(TagsOf(search_out.dense[n][1]))
            /\ \A n \in DOMAIN search_out.sparse : Carries(TagsOf(search_out.sparse[n][1]))

\* C7 witness: a filtered search over an index that also holds a chunk
\* without the tag, whose query words that chunk contains, returned
\* results that came in through both lists.
C7_Witness ==
    /\ search_out.called
    /\ search_out.filter_tags = {"x"}
    /\ search_out.query = <<"dog">>
    /\ \E i \in DOMAIN hybrid_search.chunks :
           /\ "x" \notin hybrid_search.chunks[i].tags
           /\ "dog" \in Range(hybrid_search.chunks[i].content)
    /\ search_out.dense # <<>>
    /\ search_out.sparse # <<>>
    /\ \E n \in DOMAIN search_out.results : search_out.results[n].source_type = "hybrid"

\* C8: a search with an empty query on a non-empty index returns an empty
\* result list and raises nothing, with and without reranking.
C8_EmptyQueryReturnsNothing ==
    search_out.called /\ search_out.query = <<>> /\ hybrid_search.chunks # <<>> =>
        search_out.status = "ok" /\ search_out.results = <<>>

\* C9: a search with a non-empty query over an index of zero chunks, or with
\* a tag filter no chunk matches, returns an empty list and raises nothing;
\* the store's own search over an empty store returns an empty list.
C9_NothingToFindReturnsEmpty ==
    search_out.called =>
        LET NoChunkMatches ==
                /\ search_out.filter_tags # {}
                /\ \A i \in DOMAIN hybrid_search.chunks :
                       hybrid_search.chunks[i].tags \cap search_out.filter_tags = {}
        IN  /\ search_out.query # <<>> /\ (hybrid_search.chunks = <<>> \/ NoChunkMatches)
                   => search_out.status = "ok" /\ search_out.results = <<>>
            /\ MatLen(hybrid_search.embedding_store.embeddings) = 0
                   => search_out.dense = <<>>

\* C9 witness: a reranked search whose query words the index contains, with
\* a filter tag no chunk of the non-empty index carries, returned nothing.
C9_Witness ==
    /\ search_out.called
    /\ search_out.query = <<"dog">>
    /\ search_out.rerank
    /\ search_out.filter_tags = {"z"}
    /\ \E i \in DOMAIN hybrid_search.chunks :
           "dog" \in Range(hybrid_search.chunks[i].content)
    /\ search_out.status = "ok"
    /\ search_out.results = <<>>

\* C10: the fused list holds each candidate of the dense and sparse lists
\* with the score alpha/(60+r+1) for its 0-based dense rank r plus
\* (1-alpha)/(60+r+1) for its sparse rank r, in descending order of that
\* score, cut to the top_k best.
C10_FusionIsWeightedReciprocalRank ==
    search_out.called =>
        LET an == hybrid_search.alpha[1]
            ad == hybrid_search.alpha[2]
            merged == search_out.merged
            Contribution(list, id, num, den) ==
                IF \E n \in DOMAIN list : list[n][1] = id
                THEN LET r == (CHOOSE n \in DOMAIN list : list[n][1] = id) - 1
                     IN  <<num, den * (60 + r + 1)>>
                ELSE <<0, 1>>
            Fused(id) ==
                RatAdd(Contribution(search_out.dense, id, an, ad),
                       Contribution(search_out.sparse, id, ad - an, ad))
            Same(a, b) == a[1] * b[2] = b[1] * a[2]
            candidates ==
                {search_out.dense[n][1] : n \in DOMAIN search_out.dense}
                    \cup {search_out.sparse[n][1] : n \in DOMAIN search_out.sparse}
            returned == {merged[n].chunk_id : n \in DOMAIN merged}
        IN  /\ returned \subseteq candidates
            /\ \A n \in DOMAIN merged : Same(merged[n].score, Fused(merged[n].chunk_id))
            /\ \A n, m \in DOMAIN merged :
                   n < m => /\ ~RatLess(merged[n].score, merged[m].score)
                            /\ merged[n].chunk_id # merged[m].chunk_id
            /\ Len(merged) = Min(search_out.top_k, Cardinality(candidates))
            /\ \A id \in candidates \ returned :
                   \A n \in DOMAIN merged : ~RatLess(merged[n].score, Fused(id))

\* C10 witness: with alpha = 0.7 a candidate of both lists was fused, the
\* sparse ranks put a candidate ahead of one the dense list ranked higher,
\* and the fused list was cut to top_k.
C10_Witness ==
    /\ search_out.called
    /\ hybrid_search.alpha = search_alpha
    /\ \E n \in DOMAIN search_out.merged : search_out.merged[n].source_type = "hybrid"
    /\ Len(search_out.merged) = search_out.top_k
    /\ Len(search_out.dense) > search_out.top_k
    /\ \E n, m \in DOMAIN search_out.dense :
           /\ n < m
           /\ \E i, j \in DOMAIN search_out.merged :
                  /\ i < j
                  /\ search_out.merged[i].chunk_id = search_out.dense[m][1]
                  /\ search_out.merged[j].chunk_id = search_out.dense[n][1]
(***************************************************************************)
(* Claims about fusion (SpecFusion, SpecSearch)                            *)
(***************************************************************************)

\* C11 as stated: for every alpha in [0, 1] a chunk at rank 0 of both lists
\* has a fused score strictly higher than a chunk at rank 0 of one list only
\* that the other list does not hold.
C11_BothBeatsOneStrictly ==
    \A b, o \in rank0_seen :
        b[1] = "both" /\ o[1] \in {"dense", "sparse"} => RatLess(o[2], b[2])

\* C11 amended: a chunk at rank 0 of both lists never has a lower fused
\* score than a chunk at rank 0 of one list only, and has a strictly higher
\* one when alpha is strictly between 0 and 1.
C11_BothBeatsOne ==
    \A b, o \in rank0_seen :
        b[1] = "both" /\ o[1] \in {"dense", "sparse"} =>
            /\ ~RatLess(b[2], o[2])
            /\ 0 < hybrid_search.alpha[1] /\ hybrid_search.alpha[1] < hybrid_search.alpha[2]
                   => RatLess(o[2], b[2])

\* C11 witness: with alpha = 0.7, calls on one index returned a chunk at
\* rank 0 of both lists, one at rank 0 of the dense list only and one at
\* rank 0 of the sparse list only.
C11_Witness ==
    /\ hybrid_search.alpha = search_alpha
    /\ \A kind \in {"both", "dense", "sparse"} : \E e \in rank0_seen : e[1] = kind
\* C12: every result is labelled "hybrid" exactly when both lists gave it a
\* nonzero score, "dense" exactly when only the dense list did and "sparse"
\* exactly when only the sparse list did, for every alpha in [0, 1].
C12_LabelTellsContributors ==
    search_out.called =>
        \A n \in DOMAIN search_out.merged :
            LET id == search_out.merged[n].chunk_id
                label == search_out.merged[n].source_type
                FromDense ==
                    /\ \E r \in DOMAIN search_out.dense : search_out.dense[r][1] = id
                    /\ hybrid_search.alpha[1] > 0
                FromSparse ==
                    /\ \E r \in DOMAIN search_out.sparse : search_out.sparse[r][1] = id
                    /\ hybrid_search.alpha[1] < hybrid_search.alpha[2]
            IN  /\ label = "hybrid" <=> FromDense /\ FromSparse
                /\ label = "dense" <=> FromDense /\ ~FromSparse
                /\ label = "sparse" <=> ~FromDense /\ FromSparse
\* C13 as stated: a reranked result's score is 0.4 x its fused score
\* + 0.3 x the fraction of query terms in the chunk text + 0.2 x the
\* fraction in the title + 0.1 x the fraction in the section heading, the
\* last only when the chunk has a section heading.
C13_RerankBlend ==
    search_out.called /\ search_out.rerank /\ search_out.status = "ok" =>
        \A n \in DOMAIN search_out.results :
            LET r == search_out.results[n]
                terms == {search_out.query[i] : i \in DOMAIN search_out.query}
                Fraction(text) ==
                    Rat(Cardinality({t \in terms : \E i \in DOMAIN text : text[i] = t}),
                        Cardinality(terms))
                section == IF r.section_heading # <<>>
                           THEN RatMul(<<1, 10>>, Fraction(r.section_heading))
                           ELSE <<0, 1>>
            IN  \E m \in DOMAIN search_out.merged :
                    /\ search_out.merged[m].chunk_id = r.chunk_id
                    /\ r.score =
                           RatAdd(RatAdd(RatMul(<<4, 10>>, search_out.merged[m].score),
                                         RatMul(<<3, 10>>, Fraction(r.content))),
                                  RatAdd(RatMul(<<2, 10>>, Fraction(r.post_title)),
                                         section))

\* C13 amended: as stated, with the section heading's fraction weighted
\* 0.05 (half of it times 0.1) instead of 0.1.
C13_RerankBlendHalfSection ==
    search_out.called /\ search_out.rerank /\ search_out.status = "ok" =>
        \A n \in DOMAIN search_out.results :
            LET r == search_out.results[n]
                terms == {search_out.query[i] : i \in DOMAIN search_out.query}
                Fraction(text) ==
                    Rat(Cardinality({t \in terms : \E i \in DOMAIN text : text[i] = t}),
                        Cardinality(terms))
                section == IF r.section_heading # <<>>
                           THEN RatMul(<<5, 100>>, Fraction(r.section_heading))
                           ELSE <<0, 1>>
            IN  \E m \in DOMAIN search_out.merged :
                    /\ search_out.merged[m].chunk_id = r.chunk_id
                    /\ r.score =
                           RatAdd(RatAdd(RatMul(<<4, 10>>, search_out.merged[m].score),
                                         RatMul(<<3, 10>>, Fraction(r.content))),
                                  RatAdd(RatMul(<<2, 10>>, Fraction(r.post_title)),
                                         section))

\* C13 witness: a reranked search for two terms returned a chunk with a
\* section heading that holds one of them and a chunk without a heading
\* whose text holds one of them, both with a nonzero fused score.
C13_Witness ==
    /\ search_out.called
    /\ search_out.rerank
    /\ search_out.status = "ok"
    /\ search_out.query = <<"dog", "fox">>
    /\ \A m \in DOMAIN search_out.merged : search_out.merged[m].score[1] > 0
    /\ \E n \in DOMAIN search_out.results :
           /\ search_out.results[n].section_heading # <<>>
           /\ "dog" \in Range(search_out.results[n].section_heading)
    /\ \E n \in DOMAIN search_out.results :
           /\ search_out.results[n].section_heading = <<>>
           /\ "dog" \in Range(search_out.results[n].content)
(***************************************************************************)
(* Claims about BM25 and the sparse list (SpecSparse)                      *)
(***************************************************************************)

\* C14: with a tag filter, the sparse list handed to fusion holds the
\* min(2*top_k, number of eligible chunks) best-scoring eligible chunks, an
\* eligible chunk being one that carries a filter tag and scores above 0.
C14_SparseListIsBestEligible ==
    sparse_out.called /\ sparse_out.filter_tags # {} =>
        LET cs == hybrid_search.chunks
            eligible == {i \in DOMAIN cs :
                            /\ cs[i].tags \cap sparse_out.filter_tags # {}
                            /\ sparse_out.scores[i] > 0}
            listed == {sparse_out.sparse[n][1] : n \in DOMAIN sparse_out.sparse}
        IN  /\ listed \subseteq {cs[i].chunk_id : i \in eligible}
            /\ Len(sparse_out.sparse) = Min(2 * sparse_out.top_k, Cardinality(eligible))
            /\ \A i \in eligible :
                   cs[i].chunk_id \notin listed =>
                       \A n \in DOMAIN sparse_out.sparse :
                           sparse_out.sparse[n][2][1] >= sparse_out.scores[i]
C15_CountAndBest ==
    (store_out.called /\ store_out.filter_tags # {}) =>
        LET store == hybrid_search.embedding_store
            eligible == {i \in 1..Len(store.metadata) :
                            store.metadata[i].tags \cap store_out.filter_tags # {}}
            found == store_out.filtered
            kept == {found[r].chunk_id : r \in DOMAIN found}
        IN  /\ Len(found) = Min(store_out.top_k, Cardinality(eligible))
            /\ Cardinality(kept) = Len(found)
            /\ kept \subseteq {store.chunk_ids[i] : i \in eligible}
            /\ \A r \in 1..(Len(found) - 1) : found[r].score >= found[r + 1].score
            /\ \A i \in eligible, r \in DOMAIN found :
                   store.chunk_ids[i] \notin kept => store_out.sim[i] <= found[r].score
            /\ \A r \in DOMAIN found :
                   \E i \in eligible : /\ store.chunk_ids[i] = found[r].chunk_id
                                       /\ store_out.sim[i] = found[r].score
\* C16: BM25.search returns at most top_k (doc_index, score) pairs, each
\* with the document's score and that score strictly positive, in descending
\* score order, pairs of equal score in corpus order.
C16_Bm25SearchOrder ==
    bm25_out.called =>
        LET results == bm25_out.results
        IN  /\ Len(results) <= bm25_out.top_k
            /\ \A r \in DOMAIN results :
                   /\ results[r][1] \in DOMAIN bm25_out.scores
                   /\ results[r][2] = <<bm25_out.scores[results[r][1]], 1>>
                   /\ results[r][2][1] > 0
            /\ \A r, q \in DOMAIN results :
                   r < q => /\ results[r][2][1] >= results[q][2][1]
                            /\ results[r][2][1] = results[q][2][1]
                                   => results[r][1] < results[q][1]

\* A search cut at top_k whose results hold two documents of the same score.
C16_Witness ==
    /\ bm25_out.called
    /\ Len(bm25_out.results) = bm25_out.top_k
    /\ Cardinality({i \in DOMAIN bm25_out.scores : bm25_out.scores[i] > 0})
           > bm25_out.top_k
    /\ \E r, q \in DOMAIN bm25_out.results :
           r < q /\ bm25_out.results[r][2] = bm25_out.results[q][2]
\* C17: for every corpus and every query containing term t, possibly with
\* other terms, one more occurrence of t in a document, the other documents
\* unchanged, never lowers that document's BM25 score for the query.
C17_MonotoneInTermFrequency ==
    tf_out.called => tf_out.after >= tf_out.before

\* C17 as amended: one more occurrence of t in a document never lowers the
\* document's score for a query containing t whose other tokens do not occur
\* in the document; and a document in which no query token occurs scores 0.
C17_MonotoneInTheOnlyTerm ==
    /\ tf_out.called =>
           LET content == hybrid_search.chunks[tf_out.doc_index].content
               shared == Range(Tokenize(tf_out.query)) \cap Range(Tokenize(content))
           IN  shared \subseteq {tf_out.token} => tf_out.after >= tf_out.before
    /\ bm25_out.called =>
           \A i \in DOMAIN bm25_out.scores :
               Range(Tokenize(bm25_out.query))
                   \cap Range(Tokenize(hybrid_search.chunks[i].content)) = {}
                   => bm25_out.scores[i] = 0

\* A two-term query and a document holding only one of the two terms: the
\* score was positive and one more occurrence of that term raised it.
C17_Witness ==
    /\ tf_out.called
    /\ Len(Tokenize(tf_out.query)) > 1
    /\ Range(Tokenize(tf_out.query))
           \cap Range(Tokenize(hybrid_search.chunks[tf_out.doc_index].content))
           = {tf_out.token}
    /\ tf_out.before > 0
    /\ tf_out.after > tf_out.before
\* C18: the chunks of a document carry the positions 0, 1, 2, ... in the
\* order chunk_document emits them, and their number is the sum of the
\* numbers of chunks of the introduction, the level-2 introductions and the
\* level-3 subsections.
C18_PositionsAreContiguous ==
    chunk_out.called =>
        LET all == chunk_out.all_chunks
        IN  /\ \A n \in DOMAIN all :
                   all[n].position =
                       Cardinality({k \in 1..(n - 1) : all[k].post_slug = all[n].post_slug})
            /\ Len(all) =
                   SumSeq([p \in DOMAIN chunk_out.sections |->
                              SumSeq([k \in DOMAIN chunk_out.sections[p] |->
                                         Len(chunk_out.sections[p][k])])])

\* A post in which a section packed into two or more chunks is followed by
\* another section with a chunk.
C18_Witness ==
    /\ chunk_out.called
    /\ \E p \in DOMAIN chunk_out.sections :
           \E k, l \in DOMAIN chunk_out.sections[p] :
               /\ k < l
               /\ Len(chunk_out.sections[p][k]) >= 2
               /\ chunk_out.sections[p][l] # <<>>
\* C19: over posts with distinct slugs no two chunks get the same chunk_id,
\* so the join map of HybridSearch has one entry per chunk.
C19_ChunkIdsAreUnique ==
    chunk_out.called =>
        LET all == chunk_out.all_chunks
        IN  /\ \A i, j \in DOMAIN all : all[i].chunk_id = all[j].chunk_id => i = j
            /\ Cardinality(DOMAIN chunk_out.chunk_id_to_idx) = Len(all)

\* C20: no chunk has more estimated tokens than max_tokens, unless the
\* chunk is one fenced code block.
C20_ChunksFitTheBudget ==
    chunk_out.called =>
        \A n \in DOMAIN chunk_out.all_chunks :
            LET content == chunk_out.all_chunks[n].content
            IN  \/ Len(content) \div 4 <= chunk_out.max_tokens
                \/ CodeBlocks(content, 1) = << <<1, Len(content)>> >>
\* C21: every fenced code block of a document lies whole inside one chunk:
\* neither the heading split nor the sentence split puts a chunk boundary
\* between its opening and its closing fence.
C21_CodeBlocksStayWhole ==
    chunk_out.called =>
        \A p \in DOMAIN chunk_out.posts :
            LET text == Join(chunk_out.posts[p].lines, <<"\n">>)
                emitted == Flatten(chunk_out.sections[p])
                blocks == CodeBlocks(text, 1)
            IN  \A b \in DOMAIN blocks :
                    \E n \in DOMAIN emitted :
                        \E from \in 1..Len(emitted[n].content) :
                            LET to == from + blocks[b][2] - blocks[b][1]
                            IN  /\ to <= Len(emitted[n].content)
                                /\ SubSeq(emitted[n].content, from, to)
                                       = SubSeq(text, blocks[b][1], blocks[b][2])
\* C22: for every store and BM25 model the pipeline can hold, a store to
\* which nothing was added included, save followed by load succeeds and the
\* loaded index answers every probe with the results of the saved one.
C22_ReloadIsLossless ==
    reload_out.phase \in {"loaded", "probed"} => ~reload_out.raised /\ reload_out.same

\* C22 for the stores add_embeddings was called on
C22_ReloadAfterAdd ==
    (reload_out.phase \in {"loaded", "probed"} /\ embedding_store.embeddings.kind # "none")
        => ~reload_out.raised /\ reload_out.same

\* C23: a run that found zero documents, or whose documents gave zero
\* chunks, leaves on disk a whole artifact set of that run holding an index
\* of no chunks: no rows, no ids, no BM25 documents.
C23_EmptyRunPersistsEmptyIndex ==
    LET zero_documents == outcome = "no_posts"
        zero_chunks == outcome = "complete" /\ disk["chunks.json"] = File(run_no, <<>>)
    IN  pc = "idle" /\ (zero_documents \/ zero_chunks) =>
            /\ \A f \in Files : disk[f].state = "ok" /\ disk[f].run = run_no
            /\ disk["chunks.json"].data = <<>>
            /\ MatLen(disk["embeddings.npy"].data) = 0
            /\ disk["metadata.json"].data.chunk_ids = <<>>
            /\ disk["bm25_index.pkl"].data.doc_count = 0


\* C24: whenever the indexer's store holds a matrix, the matrix has as many
\* rows as the store has chunk ids and metadata entries, and a
\* two-dimensional matrix has as many columns as the store's dimension.
C24_StoreStaysAligned ==
    LET m == embedding_store.embeddings
    IN  m.kind # "none" =>
            /\ MatLen(m) = Len(embedding_store.chunk_ids)
            /\ Len(embedding_store.chunk_ids) = Len(embedding_store.metadata)
            /\ m.kind = "2d" => Cols(m) = embedding_store.dimension


\* C25: in the dense index a completed run persisted, the dimension the
\* metadata file records equals the number of columns of the matrix file,
\* whatever the provider and the model.
C25_RecordedDimensionIsColumnCount ==
    LET matrix == disk["embeddings.npy"]
        record == disk["metadata.json"]
    IN  /\ pc = "idle" /\ outcome = "complete"
        /\ matrix = File(run_no, matrix.data) /\ record = File(run_no, record.data)
        /\ matrix.data.kind = "2d"
        => Cols(matrix.data) = record.data.dimension


(***************************************************************************)
(* Claims about concurrent queries (SpecQueries)                           *)
(***************************************************************************)

\* C26: no statement of a query ever changes the HybridSearch object (the
\* matrix, the ids, the metadata, the BM25 tables, the chunk list), and a
\* call that ran interleaved with another thread's call ends with the
\* status and the result list the same call gives when it runs alone.
C26_QueriesDoNotInterfere ==
    /\ [][hybrid_search' = hybrid_search]_vars
    /\ [](\A c \in Clients :
             calls[c].stage = "done" =>
                 LET alone == SearchCall(hybrid_search, calls[c].query, calls[c].top_k,
                                         calls[c].filter_tags, calls[c].rerank,
                                         calls[c].sim, calls[c].found)
                 IN  /\ calls[c].status = alone.status
                     /\ calls[c].results = alone.results)

\* C26 witness: one thread has finished a query with results while the
\* other thread, in the middle of another query with another dense list, is
\* about to fuse.
C26_Witness ==
    /\ calls["t1"].stage = "done"
    /\ calls["t1"].results # <<>>
    /\ calls["t2"].stage = "fuse"
    /\ calls["t2"].query # calls["t1"].query
    /\ calls["t2"].dense # calls["t1"].dense
    /\ calls["t2"].dense # <<>>


(***************************************************************************)
(* Further claims about HybridSearch.search (SpecSearch)                   *)
(***************************************************************************)

\* C27: in the fused list, candidates with equal fused scores stand in the
\* order fusion first met them, the dense list before the sparse list; in
\* the reranked list, results with equal rerank scores stand in the order
\* they had in the fused list.
C27_SortsAreStable ==
    search_out.called /\ search_out.status = "ok" =>
        LET met == Ids(search_out.dense) \o Ids(search_out.sparse)
            FirstMet(id) == CHOOSE n \in DOMAIN met :
                                met[n] = id /\ \A k \in 1..(n - 1) : met[k] # id
            merged == search_out.merged
            FusedAt(id) == CHOOSE n \in DOMAIN merged : merged[n].chunk_id = id
            results == search_out.results
        IN  /\ \A i, j \in DOMAIN merged :
                   i < j /\ merged[i].score = merged[j].score
                       => FirstMet(merged[i].chunk_id) < FirstMet(merged[j].chunk_id)
            /\ search_out.rerank =>
                   \A i, j \in DOMAIN results :
                       i < j /\ results[i].score = results[j].score
                           => FusedAt(results[i].chunk_id) < FusedAt(results[j].chunk_id)

\* C27 witness: a reranked search whose fused list holds two candidates of
\* equal fused score and whose result list holds two of equal rerank score.
C27_Witness ==
    /\ search_out.called
    /\ search_out.status = "ok"
    /\ search_out.rerank
    /\ \E i, j \in DOMAIN search_out.merged :
           i < j /\ search_out.merged[i].score = search_out.merged[j].score
    /\ \E i, j \in DOMAIN search_out.results :
           i < j /\ search_out.results[i].score = search_out.results[j].score


(***************************************************************************)
(* Claims about BM25.fit (SpecFit)                                         *)
(***************************************************************************)

\* C28: after the fit calls made so far on a BM25 instance, the model has
\* one length and one frequency table per document of the latest corpus,
\* and its avgdl, idf and vocab are those of a new instance fitted on that
\* corpus.
C28_ModelIsOfLatestFit ==
    fit_out.fits > 0 =>
        LET m == fit_out.model
            alone == Fit(NewBM25, fit_out.documents)
        IN  /\ m.doc_count = Len(fit_out.documents)
            /\ m.doc_count = Len(m.doc_lengths)
            /\ m.doc_count = Len(m.doc_freqs)
            /\ m.avgdl = alone.avgdl
            /\ m.idf = alone.idf
            /\ m.vocab = alone.vocab


\* C29: for a query with at least one word, the call with rerank on and the
\* call with rerank off, same query, top_k, filter and dense list, return
\* the same set of chunk ids; either list has each id once and at most top_k
\* entries.
C29_RerankKeepsMembership ==
    search_out.called /\ search_out.query # <<>> =>
        LET found == [r \in DOMAIN search_out.dense |->
                         [chunk_id |-> search_out.dense[r][1],
                          score |-> search_out.dense[r][2]]]
            other == SearchCall(hybrid_search, search_out.query, search_out.top_k,
                                search_out.filter_tags, ~search_out.rerank,
                                search_out.sim, found)
            IdsOf(results) == [n \in DOMAIN results |-> results[n].chunk_id]
            ids == IdsOf(search_out.results)
        IN  /\ search_out.status = "ok" /\ other.status = "ok"
            /\ Range(ids) = Range(IdsOf(other.results))
            /\ \A i, j \in DOMAIN ids : ids[i] = ids[j] => i = j
            /\ Len(ids) <= search_out.top_k

\* C29 witness: a reranked search for a two-word query returned two results
\* in another order than fusion had given them.
C29_Witness ==
    /\ search_out.called
    /\ search_out.rerank
    /\ Len(search_out.query) = 2
    /\ Len(search_out.results) = 2
    /\ Len(search_out.merged) = 2
    /\ search_out.results[1].chunk_id = search_out.merged[2].chunk_id
    /\ search_out.results[2].chunk_id = search_out.merged[1].chunk_id


(***************************************************************************)
(* Further claims about the chunker (SpecChunker)                          *)
(***************************************************************************)

\* C30: the chunks of a section split by sentences are runs first..last of
\* the section's sentences joined by spaces, where the first chunk starts at
\* sentence 1, the last chunk ends at the last sentence, every chunk ends
\* after the previous one ends and starts neither before the previous one
\* starts nor after a gap, and the sentences a chunk repeats, those from its
\* first up to the previous chunk's last, have at most overlap_tokens
\* estimated tokens together.
C30_PackingKeepsEverySentence ==
    chunk_out.called =>
        \A p \in DOMAIN chunk_out.posts :
            LET sections == Sections(chunk_out.posts[p].lines)
            IN  \A s \in DOMAIN sections :
                    LET text == Strip(sections[s].content)
                        sentences == SplitIntoSentences(text)
                        emitted == chunk_out.sections[p][s]
                        Tokens(first, last) ==
                            SumSeq([i \in 1..(last - first + 1) |->
                                       EstimatedTokens(sentences[first + i - 1])])
                        RECURSIVE PackedFrom(_, _, _)
                        PackedFrom(n, prev_first, prev_last) ==
                            IF n > Len(emitted) THEN prev_last = Len(sentences)
                            ELSE \E first \in prev_first..(prev_last + 1) :
                                     \E last \in (prev_last + 1)..Len(sentences) :
                                         /\ emitted[n].content
                                                = Join(SubSeq(sentences, first, last), <<" ">>)
                                         /\ Tokens(first, prev_last) <= chunk_out.overlap_tokens
                                         /\ PackedFrom(n + 1, first, last)
                    IN  EstimatedTokens(text) > chunk_out.max_tokens => PackedFrom(1, 1, 0)

\* C30 witness: a section split by sentences gave a chunk of one sentence
\* of at least one estimated token and next a chunk that repeats that
\* sentence before a new one.
C30_Witness ==
    /\ chunk_out.called
    /\ \E p \in DOMAIN chunk_out.posts :
           LET sections == Sections(chunk_out.posts[p].lines)
           IN  \E s \in DOMAIN sections :
                   LET text == Strip(sections[s].content)
                       sentences == SplitIntoSentences(text)
                       emitted == chunk_out.sections[p][s]
                   IN  /\ EstimatedTokens(text) > chunk_out.max_tokens
                       /\ Len(sentences) >= 3
                       /\ Len(emitted) >= 3
                       /\ EstimatedTokens(sentences[1]) >= 1
                       /\ emitted[1].content = sentences[1]
                       /\ emitted[2].content
                              = Join(<<sentences[1], sentences[2]>>, <<" ">>)

====
